---- MODULE Spec2Model ----
(***************************************************************************)
(* CallPilot: the Local Pipeline of callpilot/graph.py                     *)
(*   pick_provider -> call_provider -> choose_slot -> reserve_and_book     *)
(*   -> done                                                               *)
(* run as the compiled graph (build_graph_local), as the split             *)
(* run_local_proposal / confirm_local_booking pair, and through the        *)
(* /propose and /confirm endpoints of api.py, against capability ports     *)
(* (directory search, receptionist negotiation, calendar, reservation,     *)
(* scorer) whose outcomes are a fixture chosen in Init.                    *)
(*                                                                         *)
(* Conventions.  A CallState is a record with one field per key; a key     *)
(* that is absent or None is None == <<>>, a key holding v is Some(v).     *)
(* Python strings built with f-strings are sequences of string pieces.     *)
(* Timestamps are hours of one day (the ISO strings of the code compare    *)
(* lexicographically, which on one fixed format is the order of the        *)
(* hours).  rating and distance_km are tenths, score totals thousandths.   *)
(***************************************************************************)
EXTENDS Integers, Sequences, FiniteSets, TLC

VARIABLES
    ports,       \* the fixture behind the capability ports, fixed for a behaviour
    mode,        \* "full" | "split" | "api": which entry point drives the nodes
    pc,          \* the node (or entry-point position) that runs next
    state,       \* the CallState threaded through the nodes
    calls,       \* port calls made in the current run
    hist,        \* per executed node: its name, input and returned record, port calls
    init_state,  \* the record the run was started from
    run,         \* 1; 2 for the repeated execution of the split pipeline; 3 for a
                 \* repeated confirmation of the record run 2 returned
    first        \* the result payload of run 1, once run 2 has started

vars == <<ports, mode, pc, state, calls, hist, init_state, run, first>>

----------------------------------------------------------------------------
(* Bounds of the model *)

\* longest directory result the fixture returns
MaxProviders == 2
\* number of slots in the slot pool (the longest openings list of a provider)
MaxOpenings == 4

----------------------------------------------------------------------------
(* Optional values and Python truthiness *)

None == <<>>
Some(v) == <<v>>
Val(o) == o[1]

\* state.get(k) is truthy, for a key holding a dict or a list
TruthyColl(o) == o # None /\ Val(o) # <<>>
\* state.get(k) is truthy, for a key holding a string
TruthyStr(o) == o # None /\ Val(o) # ""

EmptyDict == <<>>

\* state.get(k, default)
Get(o, default) == IF o = None THEN default ELSE Val(o)

----------------------------------------------------------------------------
(* Slots, the calendar stub's busy block, providers *)

\* An ISO timestamp is the number of minutes since 00:00 of the day of the
\* calendar stub's busy block (day 0); the order of the numbers is the
\* lexicographic order of the timestamps.
MinutesPerHour == 60
HoursPerDay == 24
At(day, hour, minute) == (day * HoursPerDay + hour) * MinutesPerHour + minute

\* {"start": ..., "end": ...} of the hour h of day 0
Slot(h) == [start |-> At(0, h, 0), end |-> At(0, h + 1, 0)]

\* calendar.py BUSY: 2026-02-10 15:00 - 16:00
BusyStart == 15
BusyEnd == 16
BUSY == << [start |-> At(0, BusyStart, 0), end |-> At(0, BusyEnd, 0)] >>

\* The slot pool, in the order providers list it: the stub's busy hour first,
\* then the hour before it, then the hours after it (openings need not be
\* sorted).
SlotSeq == [i \in 1..MaxOpenings |->
              IF i = 1 THEN Slot(BusyStart)
              ELSE IF i = 2 THEN Slot(BusyStart - 1)
              ELSE Slot(BusyStart + i - 2)]
SlotPool == {SlotSeq[i] : i \in 1..MaxOpenings}

Specialties == {"dentist"}
\* str.title() on the specialties of the model
TitleCase(s) ==
    CASE s = "dentist" -> "Dentist"
      [] s = "cardiologist" -> "Cardiologist"
      [] OTHER -> s

MkProvider(id, dist, rating, openings) ==
    [id |-> id, name |-> id, specialty |-> "dentist", address |-> id,
     rating |-> rating, distance_km |-> dist, openings |-> openings]

\* Providers a directory can return.  Two share the minimum distance of
\* most results; one is nearer and has no openings; one is farther and
\* offers only the hour the calendar stub has busy.
ProviderPool ==
    { MkProvider("clinic_a", 12, 45, SlotSeq),
      MkProvider("clinic_b", 12, 40, SubSeq(SlotSeq, 2, 3)),
      MkProvider("clinic_c", 5, 48, <<>>),
      MkProvider("clinic_d", 30, 50, SubSeq(SlotSeq, 1, 1)) }

\* A provider dict a /confirm client can post without the keys the booking reads
MalformedProvider == [name |-> "walk_in"]

RECURSIVE SeqsOfDistinct(_, _)
\* the sequences of at most n distinct elements of S
SeqsOfDistinct(S, n) ==
    IF n = 0 THEN {<<>>}
    ELSE {<<>>} \cup
         UNION { { <<x>> \o t : t \in SeqsOfDistinct(S \ {x}, n - 1) } : x \in S }

\* Outcomes of ProviderDirectory.search: the call raises, or returns an
\* ordered list (in any order: node_pick_provider sorts again)
DirectoryOutcomes ==
    { [throws |-> TRUE, providers |-> <<>>] } \cup
    { [throws |-> FALSE, providers |-> l] : l \in SeqsOfDistinct(ProviderPool, MaxProviders) }

\* The Google Calendar backend as calendar.py sees it through
\* integrations/google_calendar.py.  use_google_apis is the flag calendar.py
\* and providers.py read from settings (the Settings class of config.py
\* declares only providers_path; the flag is taken as configuration input).
BackendStatus == {"up", "http_error", "no_credentials", "exception"}

CalendarFixtures ==
    { [use_google_apis |-> FALSE, backend |-> "up", busy |-> {}] } \cup
    { [use_google_apis |-> TRUE, backend |-> "up", busy |-> b] : b \in SUBSET SlotPool } \cup
    { [use_google_apis |-> TRUE, backend |-> s, busy |-> {}] : s \in BackendStatus \ {"up"} }

\* Reservation.reserve is a bool port; the MVP stub answers True
ReserveOutcomes == BOOLEAN

Modes == {"full", "split", "api"}

----------------------------------------------------------------------------
(* Capability ports *)

NoCalls == [search |-> 0, negotiate |-> 0, isFree |-> <<>>, reserve |-> <<>>,
            createEvent |-> <<>>, score |-> 0]

\* tools/providers.py search_providers: raises (the RuntimeError of line 63 or
\* the wrapped one of line 101) or returns the list of matches
search_providers(specialty, radius_km, user_location) == ports.search

\* adapters/receptionist_sim.py: at most this many openings are offered
MaxOffered == 3

\* ', '.join(s['start'] for s in slots)
RECURSIVE JoinStarts(_)
JoinStarts(slots) ==
    IF slots = <<>> THEN <<>>
    ELSE IF Len(slots) = 1 THEN <<ToString(slots[1].start)>>
    ELSE <<ToString(slots[1].start), ", ">> \o JoinStarts(Tail(slots))

Min(a, b) == IF a <= b THEN a ELSE b

\* provider.get("openings", [])
OpeningsOf(provider) ==
    IF "openings" \in DOMAIN provider THEN provider.openings ELSE <<>>

\* mutant: every opening is offered
simulate_receptionist_call_offers_all(provider, constraint) ==
    LET openings == OpeningsOf(provider)
        head == << <<"[CALL] Calling ", provider.name, "...">>,
                   <<"[RECEP] Hello, how can I help?">>,
                   <<"[AGENT] I'd like to book an appointment. Constraint: ", constraint>> >>
    IN  IF openings = <<>>
        THEN [ok |-> FALSE, slots |-> <<>>,
              transcript |-> Append(head, <<"[RECEP] Sorry, no availability.">>)]
        ELSE [ok |-> TRUE, slots |-> openings,
              transcript |-> head \o
                  << <<"[RECEP] We can do: ">> \o JoinStarts(openings),
                     <<"[AGENT] Great, let me confirm one moment.">> >>]

simulate_receptionist_call(provider, constraint) ==
    LET openings == OpeningsOf(provider)
        head == << <<"[CALL] Calling ", provider.name, "...">>,
                   <<"[RECEP] Hello, how can I help?">>,
                   <<"[AGENT] I'd like to book an appointment. Constraint: ", constraint>> >>
    IN  IF openings = <<>>
        THEN [ok |-> FALSE, slots |-> <<>>,
              transcript |-> Append(head, <<"[RECEP] Sorry, no availability.">>)]
        ELSE LET slots == SubSeq(openings, 1, Min(MaxOffered, Len(openings)))
             IN [ok |-> TRUE, slots |-> slots,
                 transcript |-> head \o
                     << <<"[RECEP] We can do: ">> \o JoinStarts(slots),
                        <<"[AGENT] Great, let me confirm one moment.">> >>]

\* adapters/receptionist_sim.py reserve_slot: the port's bool answer (the MVP
\* stub's True is one of the two outcomes of the fixture)
reserve_slot(provider, slot) == ports.reserve

\* integrations/google_calendar.py check_calendar_availability: "raise" stands
\* for an exception other than HttpError / FileNotFoundError leaving it
check_calendar_availability(slot) ==
    CASE ports.calendar.backend = "up" -> IF slot \in ports.calendar.busy THEN "busy" ELSE "free"
      [] ports.calendar.backend = "http_error" -> "free"
      [] ports.calendar.backend = "no_credentials" -> "free"
      [] OTHER -> "raise"

\* the MVP branch of check_calendar_free: no overlap with any BUSY block
MvpCalendarFree(slot) ==
    \A i \in 1..Len(BUSY) :
        slot.end <= BUSY[i].start \/ slot.start >= BUSY[i].end

check_calendar_free(slot) ==
    IF ports.calendar.use_google_apis /\ check_calendar_availability(slot) # "raise"
    THEN check_calendar_availability(slot) = "free"
    ELSE MvpCalendarFree(slot)

\* integrations/google_calendar.py create_calendar_event: an id (the created
\* event's, or the mvp_event one without credentials), None, or an exception
google_create_event(title, slot, location) ==
    CASE ports.calendar.backend = "up" ->
             [kind |-> "id", id |-> <<"gcal::">> \o title \o <<"::", ToString(slot.start)>>]
      [] ports.calendar.backend = "http_error" -> [kind |-> "none", id |-> <<>>]
      [] ports.calendar.backend = "no_credentials" ->
             [kind |-> "id", id |-> <<"mvp_event::">> \o title \o <<"::", ToString(slot.start)>>]
      [] OTHER -> [kind |-> "raise", id |-> <<>>]

\* mutant: whatever the backend returned is the id, None (empty) included
create_calendar_event_no_fallback(title, slot, location) ==
    LET g == google_create_event(title, slot, location)
    IN  IF ports.calendar.use_google_apis /\ g.kind # "raise"
        THEN g.id
        ELSE <<"demo_event::">> \o title \o <<"::", ToString(slot.start)>>

\* mutant: the id carries the number of the execution that created it
create_calendar_event_per_run(title, slot, location) ==
    LET g == google_create_event(title, slot, location)
    IN  IF ports.calendar.use_google_apis /\ g.kind = "id" /\ g.id # <<>>
        THEN g.id
        ELSE <<"demo_event::">> \o title \o <<"::", ToString(slot.start), "::", ToString(run)>>

create_calendar_event(title, slot, location) ==
    LET g == google_create_event(title, slot, location)
    IN  IF ports.calendar.use_google_apis /\ g.kind = "id" /\ g.id # <<>>
        THEN g.id
        ELSE <<"demo_event::">> \o title \o <<"::", ToString(slot.start)>>

\* round(n / d) for n, d > 0, ties to even as Python's round
RoundDiv(n, d) ==
    LET q == n \div d
        r == n % d
    IN  IF 2 * r < d THEN q
        ELSE IF 2 * r > d THEN q + 1
        ELSE IF q % 2 = 0 THEN q ELSE q + 1

\* radius_km 5.0, in tenths
DefaultRadius == 50

\* provider.get("distance_km", 999), in tenths
DefaultDistance == 9990
DistanceOf(p) == IF "distance_km" \in DOMAIN p THEN p.distance_km ELSE DefaultDistance
RatingOf(p) == IF "rating" \in DOMAIN p THEN p.rating ELSE 0

\* mutant: the total is cut off after 3 places
score_truncating(provider, slot) ==
    LET rating == RatingOf(provider)
        dist == DistanceOf(provider)
    IN  [total |-> rating * 200 + (30000 \div (10 + dist)),
         explain |-> [rating |-> rating, distance_km |-> dist, slot_start |-> slot.start]]

\* tools/scoring.py score: total = rating * 2.0 + (1.0 / (1.0 + dist)) * 3.0,
\* rounded to 3 places; rating and dist in tenths, total in thousandths
score(provider, slot) ==
    LET rating == RatingOf(provider)
        dist == DistanceOf(provider)
    IN  [total |-> rating * 200 + RoundDiv(30000, 10 + dist),
         explain |-> [rating |-> rating, distance_km |-> dist, slot_start |-> slot.start]]

----------------------------------------------------------------------------
(* The nodes of graph.py.  Each takes the input record and the port calls   *)
(* made so far and gives the returned record, the port calls after it and   *)
(* the exception that left the node, if one did.                            *)

Ret(s, c) == [state |-> s, calls |-> c, exc |-> None]
Raise(s, c, e) == [state |-> s, calls |-> c, exc |-> Some(e)]
\* a node that wrote into the record it was given: held is that record as
\* its holder sees it once the node has returned
RetMut(s, c, held) == [state |-> s, calls |-> c, exc |-> None, held |-> held]

ErrNoProviders == "No providers found in radius."
ErrNoProviderSelected == "No provider selected"
ErrNoSlots == "Provider had no slots."
ErrNoSlotFits == "No proposed slot fits calendar."
ErrMissing == "Missing provider or slot"
ErrReservation == "Reservation failed."

\* mutant: an unstable insertion, which puts an element before its equals
InsertByDistance_unstable(p, sorted) ==
    LET k == Cardinality({i \in 1..Len(sorted) : DistanceOf(sorted[i]) < DistanceOf(p)})
    IN  SubSeq(sorted, 1, k) \o <<p>> \o SubSeq(sorted, k + 1, Len(sorted))

\* sorted(matches, key=lambda p: float(p.get("distance_km", 999))): Python's
\* sort is stable, so an element goes after every element whose key is <= its own
InsertByDistance(p, sorted) ==
    LET k == Cardinality({i \in 1..Len(sorted) : DistanceOf(sorted[i]) <= DistanceOf(p)})
    IN  SubSeq(sorted, 1, k) \o <<p>> \o SubSeq(sorted, k + 1, Len(sorted))

RECURSIVE SortedByDistance(_)
SortedByDistance(matches) ==
    IF matches = <<>> THEN <<>>
    ELSE InsertByDistance(matches[Len(matches)],
                          SortedByDistance(SubSeq(matches, 1, Len(matches) - 1)))

\* mutant: an empty search result sets no error
node_pick_provider_no_error(s, c) ==
    LET res == search_providers(Get(s.specialty, "dentist"), Get(s.radius_km, DefaultRadius),
                                Get(s.user_location, "Berlin"))
        c1 == [c EXCEPT !.search = @ + 1]
    IN  IF res.throws THEN Raise(s, c1, "RuntimeError")
        ELSE IF res.providers = <<>>
        THEN Ret(s, c1)
        ELSE LET provider == SortedByDistance(res.providers)[1]
             IN Ret([s EXCEPT !.provider = Some(provider),
                              !.transcript = Append(@, <<"[SYS] Selected provider: ", provider.name>>)],
                    c1)

node_pick_provider(s, c) ==
    LET res == search_providers(Get(s.specialty, "dentist"), Get(s.radius_km, DefaultRadius),
                                Get(s.user_location, "Berlin"))
        c1 == [c EXCEPT !.search = @ + 1]
    IN  IF res.throws THEN Raise(s, c1, "RuntimeError")
        ELSE IF res.providers = <<>>
        THEN Ret([s EXCEPT !.error = Some(ErrNoProviders)], c1)
        ELSE LET provider == SortedByDistance(res.providers)[1]
             IN Ret([s EXCEPT !.provider = Some(provider),
                              !.transcript = Append(@, <<"[SYS] Selected provider: ", provider.name>>)],
                    c1)

\* mutant: no early return on error
node_call_provider_unguarded(s, c) ==
    IF ~TruthyColl(s.provider)
    THEN Ret([s EXCEPT !.error = Some(ErrNoProviderSelected)], c)
    ELSE LET res == simulate_receptionist_call(Val(s.provider), Get(s.time_window, "this week"))
         IN Ret([s EXCEPT !.proposed_slots = Some(res.slots),
                          !.transcript = @ \o res.transcript],
                [c EXCEPT !.negotiate = @ + 1])

\* mutant: the call's lines replace the transcript
node_call_provider_overwrites_transcript(s, c) ==
    IF TruthyStr(s.error) THEN Ret(s, c)
    ELSE IF ~TruthyColl(s.provider)
    THEN Ret([s EXCEPT !.error = Some(ErrNoProviderSelected)], c)
    ELSE LET res == simulate_receptionist_call(Val(s.provider), Get(s.time_window, "this week"))
         IN Ret([s EXCEPT !.proposed_slots = Some(res.slots),
                          !.transcript = res.transcript],
                [c EXCEPT !.negotiate = @ + 1])

\* mutant: an answer without slots is turned into an error at once
node_call_provider_fails_on_no_slots(s, c) ==
    IF TruthyStr(s.error) THEN Ret(s, c)
    ELSE IF ~TruthyColl(s.provider)
    THEN Ret([s EXCEPT !.error = Some(ErrNoProviderSelected)], c)
    ELSE LET res == simulate_receptionist_call(Val(s.provider), Get(s.time_window, "this week"))
         IN Ret([s EXCEPT !.proposed_slots = Some(res.slots),
                          !.transcript = @ \o res.transcript,
                          !.error = IF res.ok THEN @ ELSE Some(ErrNoSlots)],
                [c EXCEPT !.negotiate = @ + 1])

node_call_provider(s, c) ==
    IF TruthyStr(s.error) THEN Ret(s, c)
    ELSE IF ~TruthyColl(s.provider)
    THEN Ret([s EXCEPT !.error = Some(ErrNoProviderSelected)], c)
    ELSE LET res == simulate_receptionist_call(Val(s.provider), Get(s.time_window, "this week"))
         IN Ret([s EXCEPT !.proposed_slots = Some(res.slots),
                          !.transcript = @ \o res.transcript],
                [c EXCEPT !.negotiate = @ + 1])

\* mutant: the last free slot instead of the first
LastFreeFrom(slots, i) ==
    LET free == {k \in i..Len(slots) : check_calendar_free(slots[k])}
    IN  IF free = {} THEN 0 ELSE CHOOSE k \in free : \A m \in free : m <= k

\* the for loop of node_choose_slot from index i on: the index of the first
\* slot check_calendar_free accepts, 0 when the loop runs off the end
RECURSIVE FirstFreeFrom(_, _)
FirstFreeFrom(slots, i) ==
    IF i > Len(slots) THEN 0
    ELSE IF check_calendar_free(slots[i]) THEN i
    ELSE FirstFreeFrom(slots, i + 1)

\* mutant: an empty slot list is not told apart from a list without a free slot
node_choose_slot_no_empty_check(s, c) ==
    IF TruthyStr(s.error) THEN Ret(s, c)
    ELSE LET slots == IF s.proposed_slots = None THEN <<>> ELSE Val(s.proposed_slots)
             k == FirstFreeFrom(slots, 1)
             checked == SubSeq(slots, 1, IF k = 0 THEN Len(slots) ELSE k)
             c1 == [c EXCEPT !.isFree = @ \o checked]
         IN IF k # 0
            THEN Ret([s EXCEPT !.chosen_slot = Some(slots[k]),
                               !.calendar_ok = Some(TRUE),
                               !.transcript = Append(@, <<"[SYS] Calendar ok for ",
                                                          ToString(slots[k].start)>>)],
                     c1)
            ELSE Ret([s EXCEPT !.calendar_ok = Some(FALSE),
                               !.error = Some(ErrNoSlotFits)],
                     c1)

\* mutant: the calendar is asked about the first slot and its answer ignored
node_choose_slot_ignores_calendar(s, c) ==
    IF TruthyStr(s.error) THEN Ret(s, c)
    ELSE IF ~TruthyColl(s.proposed_slots)
    THEN Ret([s EXCEPT !.error = Some(ErrNoSlots)], c)
    ELSE LET slots == Val(s.proposed_slots)
         IN Ret([s EXCEPT !.chosen_slot = Some(slots[1]),
                          !.calendar_ok = Some(TRUE),
                          !.transcript = Append(@, <<"[SYS] Calendar ok for ",
                                                     ToString(slots[1].start)>>)],
                [c EXCEPT !.isFree = Append(@, slots[1])])

\* mutant: with no free slot the first proposed slot is kept as the choice
node_choose_slot_keeps_first(s, c) ==
    IF TruthyStr(s.error) THEN Ret(s, c)
    ELSE IF ~TruthyColl(s.proposed_slots)
    THEN Ret([s EXCEPT !.error = Some(ErrNoSlots)], c)
    ELSE LET slots == Val(s.proposed_slots)
             k == FirstFreeFrom(slots, 1)
             checked == SubSeq(slots, 1, IF k = 0 THEN Len(slots) ELSE k)
             c1 == [c EXCEPT !.isFree = @ \o checked]
         IN IF k # 0
            THEN Ret([s EXCEPT !.chosen_slot = Some(slots[k]),
                               !.calendar_ok = Some(TRUE),
                               !.transcript = Append(@, <<"[SYS] Calendar ok for ",
                                                          ToString(slots[k].start)>>)],
                     c1)
            ELSE Ret([s EXCEPT !.chosen_slot = Some(slots[1]),
                               !.calendar_ok = Some(FALSE),
                               !.error = Some(ErrNoSlotFits)],
                     c1)

\* mutant: the calendar is asked about the provider's openings, not only about
\* the slots that were proposed
node_choose_slot_from_openings(s, c) ==
    IF TruthyStr(s.error) THEN Ret(s, c)
    ELSE IF ~TruthyColl(s.proposed_slots)
    THEN Ret([s EXCEPT !.error = Some(ErrNoSlots)], c)
    ELSE LET slots == OpeningsOf(Val(s.provider))
             k == FirstFreeFrom(slots, 1)
             checked == SubSeq(slots, 1, IF k = 0 THEN Len(slots) ELSE k)
             c1 == [c EXCEPT !.isFree = @ \o checked]
         IN IF k # 0
            THEN Ret([s EXCEPT !.chosen_slot = Some(slots[k]),
                               !.calendar_ok = Some(TRUE),
                               !.transcript = Append(@, <<"[SYS] Calendar ok for ",
                                                          ToString(slots[k].start)>>)],
                     c1)
            ELSE Ret([s EXCEPT !.calendar_ok = Some(FALSE),
                               !.error = Some(ErrNoSlotFits)],
                     c1)

node_choose_slot(s, c) ==
    IF TruthyStr(s.error) THEN Ret(s, c)
    ELSE IF ~TruthyColl(s.proposed_slots)
    THEN Ret([s EXCEPT !.error = Some(ErrNoSlots)], c)
    ELSE LET slots == Val(s.proposed_slots)
             k == FirstFreeFrom(slots, 1)
             checked == SubSeq(slots, 1, IF k = 0 THEN Len(slots) ELSE k)
             c1 == [c EXCEPT !.isFree = @ \o checked]
         IN IF k # 0
            THEN Ret([s EXCEPT !.chosen_slot = Some(slots[k]),
                               !.calendar_ok = Some(TRUE),
                               !.transcript = Append(@, <<"[SYS] Calendar ok for ",
                                                          ToString(slots[k].start)>>)],
                     c1)
            ELSE Ret([s EXCEPT !.calendar_ok = Some(FALSE),
                               !.error = Some(ErrNoSlotFits)],
                     c1)

\* provider.get("address", provider.get("name", ""))
LocationOf(provider) ==
    IF "address" \in DOMAIN provider THEN provider.address
    ELSE IF "name" \in DOMAIN provider THEN provider.name ELSE ""

EventTitle(provider) ==
    <<TitleCase(provider.specialty), " appointment - ", provider.name>>

\* mutant: no early return on error
node_reserve_and_book_unguarded(s, c) ==
    IF ~TruthyColl(s.provider) \/ ~TruthyColl(s.chosen_slot)
    THEN Ret([s EXCEPT !.error = Some(ErrMissing)], c)
    ELSE LET provider == Val(s.provider)
             slot == Val(s.chosen_slot)
             c1 == [c EXCEPT !.reserve = Append(@, [provider |-> provider, slot |-> slot])]
         IN IF ~reserve_slot(provider, slot)
            THEN Ret([s EXCEPT !.reservation_ok = Some(FALSE),
                               !.error = Some(ErrReservation)], c1)
            ELSE IF ~({"specialty", "name"} \subseteq DOMAIN provider)
            THEN Raise(s, c1, "KeyError")
            ELSE LET title == EventTitle(provider)
                     event_id == create_calendar_event(title, slot, LocationOf(provider))
                     c2 == [c1 EXCEPT !.createEvent =
                                Append(@, [title |-> title, slot |-> slot,
                                           location |-> LocationOf(provider)])]
                     sc == score(provider, slot)
                     c3 == [c2 EXCEPT !.score = @ + 1]
                 IN IF "id" \notin DOMAIN provider
                    THEN Raise(s, c3, "KeyError")
                    ELSE LET result ==
                                 [provider |-> [id |-> provider.id,
                                                name |-> provider.name,
                                                rating |-> provider.rating,
                                                distance_km |-> provider.distance_km],
                                  slot |-> slot,
                                  score |-> sc,
                                  event_id |-> event_id]
                         IN Ret([s EXCEPT !.reservation_ok = Some(TRUE),
                                          !.event_id = Some(event_id),
                                          !.result = Some(result),
                                          !.transcript = Append(@,
                                              <<"[SYS] Reserved + created event: ">> \o event_id)],
                                c3)

\* mutant: only a slot with calendar_ok is reserved
node_reserve_and_book_requires_calendar_ok(s, c) ==
    IF TruthyStr(s.error) THEN Ret(s, c)
    ELSE IF ~TruthyColl(s.provider) \/ ~TruthyColl(s.chosen_slot)
    THEN Ret([s EXCEPT !.error = Some(ErrMissing)], c)
    ELSE IF s.calendar_ok # Some(TRUE)
    THEN Ret([s EXCEPT !.error = Some(ErrNoSlotFits)], c)
    ELSE LET provider == Val(s.provider)
             slot == Val(s.chosen_slot)
             c1 == [c EXCEPT !.reserve = Append(@, [provider |-> provider, slot |-> slot])]
         IN IF ~reserve_slot(provider, slot)
            THEN Ret([s EXCEPT !.reservation_ok = Some(FALSE),
                               !.error = Some(ErrReservation)], c1)
            ELSE IF ~({"specialty", "name"} \subseteq DOMAIN provider)
            THEN Raise(s, c1, "KeyError")
            ELSE LET title == EventTitle(provider)
                     event_id == create_calendar_event(title, slot, LocationOf(provider))
                     c2 == [c1 EXCEPT !.createEvent =
                                Append(@, [title |-> title, slot |-> slot,
                                           location |-> LocationOf(provider)])]
                     c3 == [c2 EXCEPT !.score = @ + 1]
                 IN IF "id" \notin DOMAIN provider
                    THEN Raise(s, c3, "KeyError")
                    ELSE LET result ==
                                 [provider |-> [id |-> provider.id,
                                                name |-> provider.name,
                                                rating |-> provider.rating,
                                                distance_km |-> provider.distance_km],
                                  slot |-> slot,
                                  score |-> score(provider, slot),
                                  event_id |-> event_id]
                         IN Ret([s EXCEPT !.reservation_ok = Some(TRUE),
                                          !.event_id = Some(event_id),
                                          !.result = Some(result),
                                          !.transcript = Append(@,
                                              <<"[SYS] Reserved + created event: ">> \o event_id)],
                                c3)

\* mutant: a refused reservation is recorded without an error
node_reserve_and_book_silent_refusal(s, c) ==
    IF TruthyStr(s.error) THEN Ret(s, c)
    ELSE IF ~TruthyColl(s.provider) \/ ~TruthyColl(s.chosen_slot)
    THEN Ret([s EXCEPT !.error = Some(ErrMissing)], c)
    ELSE LET provider == Val(s.provider)
             slot == Val(s.chosen_slot)
             c1 == [c EXCEPT !.reserve = Append(@, [provider |-> provider, slot |-> slot])]
         IN IF ~reserve_slot(provider, slot)
            THEN Ret([s EXCEPT !.reservation_ok = Some(FALSE)], c1)
            ELSE IF ~({"specialty", "name"} \subseteq DOMAIN provider)
            THEN Raise(s, c1, "KeyError")
            ELSE LET title == EventTitle(provider)
                     event_id == create_calendar_event(title, slot, LocationOf(provider))
                     c2 == [c1 EXCEPT !.createEvent =
                                Append(@, [title |-> title, slot |-> slot,
                                           location |-> LocationOf(provider)])]
                     c3 == [c2 EXCEPT !.score = @ + 1]
                 IN IF "id" \notin DOMAIN provider
                    THEN Raise(s, c3, "KeyError")
                    ELSE LET result ==
                                 [provider |-> [id |-> provider.id,
                                                name |-> provider.name,
                                                rating |-> provider.rating,
                                                distance_km |-> provider.distance_km],
                                  slot |-> slot,
                                  score |-> score(provider, slot),
                                  event_id |-> event_id]
                         IN Ret([s EXCEPT !.reservation_ok = Some(TRUE),
                                          !.event_id = Some(event_id),
                                          !.result = Some(result),
                                          !.transcript = Append(@,
                                              <<"[SYS] Reserved + created event: ">> \o event_id)],
                                c3)

\* mutant: the calendar event is created before the slot is reserved
node_reserve_and_book_books_first(s, c) ==
    IF TruthyStr(s.error) THEN Ret(s, c)
    ELSE IF ~TruthyColl(s.provider) \/ ~TruthyColl(s.chosen_slot)
    THEN Ret([s EXCEPT !.error = Some(ErrMissing)], c)
    ELSE LET provider == Val(s.provider)
             slot == Val(s.chosen_slot)
         IN IF ~({"specialty", "name"} \subseteq DOMAIN provider)
            THEN Raise(s, c, "KeyError")
            ELSE LET title == EventTitle(provider)
                     event_id == create_calendar_event(title, slot, LocationOf(provider))
                     c1 == [c EXCEPT !.createEvent =
                                Append(@, [title |-> title, slot |-> slot,
                                           location |-> LocationOf(provider)])]
                     c2 == [c1 EXCEPT !.reserve = Append(@, [provider |-> provider, slot |-> slot])]
                 IN IF ~reserve_slot(provider, slot)
                    THEN Ret([s EXCEPT !.reservation_ok = Some(FALSE),
                                       !.error = Some(ErrReservation)], c2)
                    ELSE IF "id" \notin DOMAIN provider
                    THEN Raise(s, [c2 EXCEPT !.score = @ + 1], "KeyError")
                    ELSE LET result ==
                                 [provider |-> [id |-> provider.id,
                                                name |-> provider.name,
                                                rating |-> provider.rating,
                                                distance_km |-> provider.distance_km],
                                  slot |-> slot,
                                  score |-> score(provider, slot),
                                  event_id |-> event_id]
                         IN Ret([s EXCEPT !.reservation_ok = Some(TRUE),
                                          !.event_id = Some(event_id),
                                          !.result = Some(result),
                                          !.transcript = Append(@,
                                              <<"[SYS] Reserved + created event: ">> \o event_id)],
                                [c2 EXCEPT !.score = @ + 1])

node_reserve_and_book(s, c) ==
    IF TruthyStr(s.error) THEN Ret(s, c)
    ELSE IF ~TruthyColl(s.provider) \/ ~TruthyColl(s.chosen_slot)
    THEN Ret([s EXCEPT !.error = Some(ErrMissing)], c)
    ELSE LET provider == Val(s.provider)
             slot == Val(s.chosen_slot)
             c1 == [c EXCEPT !.reserve = Append(@, [provider |-> provider, slot |-> slot])]
         IN IF ~reserve_slot(provider, slot)
            THEN Ret([s EXCEPT !.reservation_ok = Some(FALSE),
                               !.error = Some(ErrReservation)], c1)
            ELSE IF ~({"specialty", "name"} \subseteq DOMAIN provider)
            THEN Raise(s, c1, "KeyError")
            ELSE LET title == EventTitle(provider)
                     event_id == create_calendar_event(title, slot, LocationOf(provider))
                     c2 == [c1 EXCEPT !.createEvent =
                                Append(@, [title |-> title, slot |-> slot,
                                           location |-> LocationOf(provider)])]
                     sc == score(provider, slot)
                     c3 == [c2 EXCEPT !.score = @ + 1]
                 IN IF "id" \notin DOMAIN provider
                    THEN Raise(s, c3, "KeyError")
                    ELSE LET result ==
                                 [provider |-> [id |-> provider.id,
                                                name |-> provider.name,
                                                rating |-> provider.rating,
                                                distance_km |-> provider.distance_km],
                                  slot |-> slot,
                                  score |-> sc,
                                  event_id |-> event_id]
                         IN Ret([s EXCEPT !.reservation_ok = Some(TRUE),
                                          !.event_id = Some(event_id),
                                          !.result = Some(result),
                                          !.transcript = Append(@,
                                              <<"[SYS] Reserved + created event: ">> \o event_id)],
                                c3)

\* result["status"] = ...; result["transcript"] = ... on a result dict
Stamp(result, status, transcript) ==
    [k \in DOMAIN result \cup {"status", "transcript"} |->
        IF k = "status" THEN status
        ELSE IF k = "transcript" THEN transcript
        ELSE result[k]]

\* mutant: a present result is stamped completed
node_done_completed(s, c) ==
    IF TruthyStr(s.error) /\ ~TruthyColl(s.result)
    THEN Ret([s EXCEPT !.result = Some([status |-> "failed",
                                        error |-> Val(s.error),
                                        transcript |-> s.transcript])], c)
    ELSE Ret([s EXCEPT !.result = Some(Stamp(IF s.result = None THEN EmptyDict ELSE Val(s.result),
                                             "completed", s.transcript))], c)

node_done(s, c) ==
    IF TruthyStr(s.error) /\ ~TruthyColl(s.result)
    THEN Ret([s EXCEPT !.result = Some([status |-> "failed",
                                        error |-> Val(s.error),
                                        transcript |-> s.transcript])], c)
    ELSE IF TruthyColl(s.result)
    THEN LET stamped == [s EXCEPT !.result = Some(Stamp(Val(s.result), "success", s.transcript))]
         IN  RetMut(stamped, c, stamped)
    ELSE Ret([s EXCEPT !.result = Some([status |-> "completed",
                                        transcript |-> s.transcript])], c)

----------------------------------------------------------------------------
(* Entry points *)

\* the init_state of api.py (_run_graph_async, propose_callpilot) and run.py
InitRecord(specialty) ==
    [specialty |-> Some(specialty),
     time_window |-> Some("this week afternoons"),
     radius_km |-> Some(DefaultRadius),
     user_location |-> Some("Berlin"),
     provider |-> None,
     proposed_slots |-> None,
     chosen_slot |-> None,
     calendar_ok |-> None,
     reservation_ok |-> None,
     event_id |-> None,
     transcript |-> <<>>,
     result |-> None,
     error |-> None,
     proposal |-> None]

\* mutant: the proposal offers the first proposed slot, not the chosen one
Proposal_first_offered(s) ==
    [provider |-> s.provider,
     slot |-> IF TruthyColl(s.proposed_slots) THEN Some(Val(s.proposed_slots)[1]) ELSE None,
     calendar_ok |-> s.calendar_ok,
     error |-> s.error,
     transcript |-> s.transcript]

\* run_local_proposal, after its three nodes: the proposal it packages
Proposal(s) ==
    [provider |-> s.provider,
     slot |-> s.chosen_slot,
     calendar_ok |-> s.calendar_ok,
     error |-> s.error,
     transcript |-> s.transcript]

\* ConfirmRequest of api.py: provider and slot are dicts (None is rejected
\* before the handler runs), chosen by the client: the proposed ones, or others
ClientProviders(s) ==
    (IF s.provider # None THEN {Val(s.provider)} ELSE {})
        \cup {MkProvider("clinic_d", 30, 50, SubSeq(SlotSeq, 1, 1)), MalformedProvider, EmptyDict}
ClientSlots(s) ==
    (IF s.chosen_slot # None THEN {Val(s.chosen_slot)} ELSE {})
        \cup {SlotSeq[1], EmptyDict}

\* req.specialty or req.provider.get("specialty")
ConfirmSpecialty(specialty, provider) ==
    IF TruthyStr(specialty) THEN specialty
    ELSE IF "specialty" \in DOMAIN provider THEN Some(provider.specialty) ELSE None

\* confirm_callpilot: the record built from the request, four keys only
ConfirmRecord(provider, slot, specialty, transcript) ==
    [specialty |-> ConfirmSpecialty(specialty, provider),
     time_window |-> None,
     radius_km |-> None,
     user_location |-> None,
     provider |-> Some(provider),
     proposed_slots |-> None,
     chosen_slot |-> Some(slot),
     calendar_ok |-> None,
     reservation_ok |-> None,
     event_id |-> None,
     transcript |-> transcript,
     result |-> None,
     error |-> None,
     proposal |-> None]

----------------------------------------------------------------------------
(* The state machine *)

Fixtures ==
    [search : DirectoryOutcomes, calendar : CalendarFixtures, reserve : ReserveOutcomes]

Init ==
    /\ ports \in Fixtures
    /\ mode \in Modes
    /\ \E sp \in Specialties : init_state = InitRecord(sp)
    /\ state = init_state
    /\ pc = "pick_provider"
    /\ calls = NoCalls
    /\ hist = <<>>
    /\ run = 1
    /\ first = None

\* the record a node was given, as its holder sees it after the node returned:
\* unchanged unless the node wrote into it
Held(r, given) == IF "held" \in DOMAIN r THEN r.held ELSE given

\* one node: r is what the node gives on the current record; an exception
\* leaves the node, and the run, without a returned record
Step(name, r, next) ==
    /\ pc = name
    /\ calls' = r.calls
    /\ IF r.exc # None
       THEN /\ pc' = "crashed"
            /\ UNCHANGED <<state, hist>>
       ELSE /\ pc' = next
            /\ state' = r.state
            /\ hist' = Append(hist, [step |-> name, pre |-> state, post |-> r.state,
                                      cpre |-> calls, cpost |-> r.calls,
                                      held |-> Held(r, state)])
    /\ UNCHANGED <<ports, mode, init_state, run, first>>

PickProvider ==
    Step("pick_provider", node_pick_provider(state, calls), "call_provider")

CallProvider ==
    Step("call_provider", node_call_provider(state, calls), "choose_slot")

\* the graph goes on to reserve_and_book; run_local_proposal packages a proposal
ChooseSlot ==
    Step("choose_slot", node_choose_slot(state, calls),
         IF mode = "full" THEN "reserve_and_book" ELSE "proposal")

\* the end of run_local_proposal; its caller then confirms with the returned
\* record, or (api.py) hands the client the four keys to post back
ReturnProposal ==
    /\ pc = "proposal"
    /\ state' = [state EXCEPT !.proposal = Some(Proposal(state))]
    /\ pc' = IF mode = "split" THEN "reserve_and_book" ELSE "confirm_request"
    /\ UNCHANGED <<ports, mode, calls, hist, init_state, run, first>>

\* POST /confirm: confirm_callpilot builds the record confirm_local_booking gets
ConfirmRequest ==
    /\ pc = "confirm_request"
    /\ \E provider \in ClientProviders(state), slot \in ClientSlots(state) :
           state' = ConfirmRecord(provider, slot, state.specialty, state.transcript)
    /\ pc' = "reserve_and_book"
    /\ UNCHANGED <<ports, mode, calls, hist, init_state, run, first>>

ReserveAndBook ==
    Step("reserve_and_book", node_reserve_and_book(state, calls), "done")

Done ==
    Step("done", node_done(state, calls), "END")

\* the split pipeline executed a second time on the same input and fixture
RunAgain ==
    /\ pc = "END"
    /\ mode = "split"
    /\ run = 1
    /\ first' = state.result
    /\ run' = 2
    /\ state' = init_state
    /\ calls' = NoCalls
    /\ hist' = <<>>
    /\ pc' = "pick_provider"
    /\ UNCHANGED <<ports, mode, init_state>>

\* the caller hands the record confirm_local_booking returned to
\* confirm_local_booking once more (a repeated confirmation)
ConfirmAgain ==
    /\ pc = "END"
    /\ mode = "split"
    /\ run < 3
    /\ run' = 3
    /\ calls' = NoCalls
    /\ hist' = <<>>
    /\ pc' = "reserve_and_book"
    /\ UNCHANGED <<ports, mode, state, init_state, first>>

Next ==
    \/ PickProvider
    \/ CallProvider
    \/ ChooseSlot
    \/ ReturnProposal
    \/ ConfirmRequest
    \/ ReserveAndBook
    \/ Done
    \/ RunAgain
    \/ ConfirmAgain

Spec == Init /\ [][Next]_vars

----------------------------------------------------------------------------
(* The Agent Pipeline: the nodes of build_graph_mcp *)

\* the longest Agent - Tools alternation the model follows
MaxTurns == 2

TruthyNum(o) == o # None /\ Val(o) # 0

UserText == "find me a dentist close to Alexanderplatz tomorrow morning"

\* what node_listen_user hears: the typed or transcribed request, or None
\* at end of input (formatted into the transcript line as "None")
Heard == {"None", UserText}

node_listen_user(s, c, heard) ==
    Ret([s EXCEPT !.transcript = Append(@, <<"[USER] ", heard>>)], c)

\* The defaults of node_extract_preferences; radius_km in tenths
DefaultSpecialty == "dentist"
DefaultTimeWindow == "this week"
AgentDefaultRadius == 50
DefaultLocation == "Berlin"
NearRadius == 30

\* "close" in loc_pref or "near" in loc_pref or "nearby" in loc_pref, on the
\* lower-cased location preferences of the model
MentionsNear(loc_pref) ==
    CASE loc_pref = "Close to Alexanderplatz" -> TRUE
      [] loc_pref = "nearby" -> TRUE
      [] loc_pref = "downtown" -> FALSE
      [] OTHER -> FALSE

\* a JSON value of the key radius_km: a number (in tenths) or a string
JsonNum(n) == [num |-> n]
JsonStr(str) == [str |-> str]
\* float(v): the number, or ValueError (None) for the strings of the model
ToFloat(v) == IF "num" \in DOMAIN v THEN Some(v.num) ELSE None
\* the truth value of a JSON number or string
TruthyJson(o) ==
    o # None /\ (IF "num" \in DOMAIN Val(o) THEN Val(o).num # 0 ELSE Val(o).str # "")

Extracted(specialty, time_window, radius_km, location_preference, provider_name, urgency) ==
    [specialty |-> specialty, time_window |-> time_window, radius_km |-> radius_km,
     location_preference |-> location_preference, provider_name |-> provider_name,
     urgency |-> urgency]

\* Outcomes of the extraction call: the model call or json.loads raises, the
\* answer holds no JSON object, or it holds one with these keys (null = None)
ExtractionOutcomes ==
    { [kind |-> "raise", extracted |-> EmptyDict],
      [kind |-> "no_json", extracted |-> EmptyDict] } \cup
    { [kind |-> "json", extracted |-> e] : e \in
        { Extracted(None, None, None, None, None, None),
          Extracted(Some("cardiologist"), Some("tomorrow morning"), None, None, None, None),
          Extracted(None, None, Some(JsonNum(20)), None, None, None),
          Extracted(None, None, Some(JsonStr("far")), Some("downtown"), None, None),
          Extracted(Some("cardiologist"), None, None, Some("Close to Alexanderplatz"), None, None),
          Extracted(None, None, Some(JsonNum(20)), Some("nearby"), None, None),
          Extracted(None, Some("tomorrow morning"), Some(JsonNum(80)), None,
                    Some("Mitte Dental"), Some("urgent")) } }

\* {**state, **updates}: updates maps a key to the Some(value) written
Merge(s, updates) ==
    [k \in DOMAIN s |-> IF k \in DOMAIN updates THEN updates[k] ELSE s[k]]

\* a dict literal built by successive assignments: later pairs win
Upd(updates, key, value) ==
    [k \in DOMAIN updates \cup {key} |-> IF k = key THEN value ELSE updates[k]]

\* mutant: no default for user_location
WithDefaults_no_location(s, updates) ==
    LET has(k) == k \in DOMAIN updates
        u1 == IF ~(has("specialty") /\ TruthyStr(updates["specialty"])) /\ ~TruthyStr(s.specialty)
              THEN Upd(updates, "specialty", Some(DefaultSpecialty)) ELSE updates
        u2 == IF ~("time_window" \in DOMAIN u1 /\ TruthyStr(u1["time_window"]))
                 /\ ~TruthyStr(s.time_window)
              THEN Upd(u1, "time_window", Some(DefaultTimeWindow)) ELSE u1
        u3 == IF ~("radius_km" \in DOMAIN u2 /\ TruthyNum(u2["radius_km"]))
                 /\ ~TruthyNum(s.radius_km)
              THEN Upd(u2, "radius_km", Some(AgentDefaultRadius)) ELSE u2
    IN  u3

\* the defaults for the fields that neither updates nor the record has
\* (lines 299-307, 395-402, 412-420)
WithDefaults(s, updates) ==
    LET has(k) == k \in DOMAIN updates
        u1 == IF ~(has("specialty") /\ TruthyStr(updates["specialty"])) /\ ~TruthyStr(s.specialty)
              THEN Upd(updates, "specialty", Some(DefaultSpecialty)) ELSE updates
        u2 == IF ~("time_window" \in DOMAIN u1 /\ TruthyStr(u1["time_window"]))
                 /\ ~TruthyStr(s.time_window)
              THEN Upd(u1, "time_window", Some(DefaultTimeWindow)) ELSE u1
        u3 == IF ~("radius_km" \in DOMAIN u2 /\ TruthyNum(u2["radius_km"]))
                 /\ ~TruthyNum(s.radius_km)
              THEN Upd(u2, "radius_km", Some(AgentDefaultRadius)) ELSE u2
        u4 == IF ~("user_location" \in DOMAIN u3 /\ TruthyStr(u3["user_location"]))
                 /\ ~TruthyStr(s.user_location)
              THEN Upd(u3, "user_location", Some(DefaultLocation)) ELSE u3
    IN  u4

\* mutant: an extracted specialty is taken whether or not the caller gave one
ExtractedUpdates_overwrites(s, e) ==
    LET u1 == IF TruthyStr(e.specialty)
              THEN Upd(EmptyDict, "specialty", e.specialty) ELSE EmptyDict
        u2 == IF TruthyStr(e.time_window) /\ ~TruthyStr(s.time_window)
              THEN Upd(u1, "time_window", e.time_window) ELSE u1
        u3 == IF TruthyJson(e.radius_km) /\ ~TruthyNum(s.radius_km)
                 /\ ToFloat(Val(e.radius_km)) # None
              THEN Upd(u2, "radius_km", ToFloat(Val(e.radius_km))) ELSE u2
        u4 == IF TruthyStr(e.location_preference) /\ MentionsNear(Val(e.location_preference))
              THEN Upd(u3, "radius_km", Some(Min(Get(s.radius_km, AgentDefaultRadius), NearRadius)))
              ELSE u3
        u5 == IF TruthyStr(e.provider_name)
              THEN Upd(u4, "preferred_provider", e.provider_name) ELSE u4
        u6 == IF TruthyStr(e.urgency) THEN Upd(u5, "urgency", e.urgency) ELSE u5
    IN  u6

\* lines 368-392: the updates taken from the extracted JSON object
ExtractedUpdates(s, e) ==
    LET u1 == IF TruthyStr(e.specialty) /\ ~TruthyStr(s.specialty)
              THEN Upd(EmptyDict, "specialty", e.specialty) ELSE EmptyDict
        u2 == IF TruthyStr(e.time_window) /\ ~TruthyStr(s.time_window)
              THEN Upd(u1, "time_window", e.time_window) ELSE u1
        u3 == IF TruthyJson(e.radius_km) /\ ~TruthyNum(s.radius_km)
                 /\ ToFloat(Val(e.radius_km)) # None
              THEN Upd(u2, "radius_km", ToFloat(Val(e.radius_km))) ELSE u2
        u4 == IF TruthyStr(e.location_preference) /\ MentionsNear(Val(e.location_preference))
              THEN Upd(u3, "radius_km", Some(Min(Get(s.radius_km, AgentDefaultRadius), NearRadius)))
              ELSE u3
        u5 == IF TruthyStr(e.provider_name)
              THEN Upd(u4, "preferred_provider", e.provider_name) ELSE u4
        u6 == IF TruthyStr(e.urgency) THEN Upd(u5, "urgency", e.urgency) ELSE u5
    IN  u6

\* ex is the outcome of the extraction call; it is not made when user_text is
\* empty or blank
node_extract_preferences(s, c, ex) ==
    IF ~TruthyStr(s.user_text) \/ ex.kind # "json"
    THEN Ret(Merge(s, WithDefaults(s, EmptyDict)), c)
    ELSE Ret(Merge(s, WithDefaults(s, ExtractedUpdates(s, ex.extracted))), c)

\* state.get(key) or default
OrDefault(o, default, truthy) == IF truthy THEN Val(o) ELSE default

\* lines 496-533: the conversation node_agent opens with
SystemMessage(s) ==
    [role |-> "system",
     content |-> <<"Current booking request: specialty: ",
                   OrDefault(s.specialty, DefaultSpecialty, TruthyStr(s.specialty)),
                   " time_window: ",
                   OrDefault(s.time_window, DefaultTimeWindow, TruthyStr(s.time_window)),
                   " radius_km: ",
                   ToString(OrDefault(s.radius_km, AgentDefaultRadius, TruthyNum(s.radius_km))),
                   " user_location: ",
                   OrDefault(s.user_location, DefaultLocation, TruthyStr(s.user_location))>>]
HumanMessage(s) ==
    [role |-> "human",
     content |-> <<"Please book an appointment: Specialty: ",
                   OrDefault(s.specialty, DefaultSpecialty, TruthyStr(s.specialty)),
                   " Time window: ",
                   OrDefault(s.time_window, DefaultTimeWindow, TruthyStr(s.time_window)),
                   " Maximum distance: ",
                   ToString(OrDefault(s.radius_km, AgentDefaultRadius, TruthyNum(s.radius_km))),
                   " km from ",
                   OrDefault(s.user_location, DefaultLocation, TruthyStr(s.user_location))>>]

\* The answers of the reasoning model in the runs of the model.  A content is
\* the text of the answer; json_loads is json.loads on these texts.
ContentFull == "{provider: {id, name, address, rating, distance_km}, slot: {start: 14:00, end: 15:00}, score}"
ContentBusy == "{provider: {id, name, address, rating, distance_km}, slot: {start: 15:00, end: 16:00}, score}"
ContentNoEnd == "{provider: {id, name, address, rating, distance_km}, slot: {start: 14:00}, score}"
ContentNoName == "{provider: {id}, slot: {start: 14:00, end: 15:00}, score}"
ContentNoProvider == "{slot: {start: 14:00, end: 15:00}}"
ContentNoSlot == "{provider: {id, name, address, rating, distance_km}, score}"
ContentEmptyObject == "{}"
ContentProse == "I could not find an appointment."

AnswerProvider ==
    [id |-> "clinic_a", name |-> "clinic_a", address |-> "clinic_a street",
     rating |-> 45, distance_km |-> 12]

\* json.loads(content): Some(value), or None when it raises
json_loads(content) ==
    CASE content = ContentFull ->
             Some([provider |-> AnswerProvider, slot |-> Slot(BusyStart - 1), score |-> 0])
      [] content = ContentBusy ->
             Some([provider |-> AnswerProvider, slot |-> Slot(BusyStart), score |-> 0])
      [] content = ContentNoEnd ->
             Some([provider |-> AnswerProvider,
                   slot |-> [start |-> Slot(BusyStart - 1).start], score |-> 0])
      [] content = ContentNoName ->
             Some([provider |-> [id |-> "clinic_a"], slot |-> Slot(BusyStart - 1), score |-> 0])
      [] content = ContentNoProvider -> Some([slot |-> Slot(BusyStart - 1)])
      [] content = ContentNoSlot -> Some([provider |-> AnswerProvider, score |-> 0])
      [] content = ContentEmptyObject -> Some(EmptyDict)
      [] OTHER -> None

\* responses that end the loop, and responses that ask for tools
FinalResponses ==
    { [role |-> "ai", content |-> cn, tool_calls |-> <<>>] : cn \in
        {ContentFull, ContentBusy, ContentNoEnd, ContentNoName, ContentNoProvider,
         ContentNoSlot, ContentEmptyObject, ContentProse} }
ToolResponses ==
    { [role |-> "ai", content |-> "", tool_calls |-> <<"search_providers_tool">>],
      [role |-> "ai", content |-> ContentFull,
       tool_calls |-> <<"get_openings_tool", "check_calendar_free_tool">>] }
Responses == FinalResponses \cup ToolResponses

\* node_agent writes messages and best_option into the record it was given
\* and returns that record
node_agent(s, c, resp) ==
    LET messages == IF TruthyColl(s.messages) THEN Val(s.messages)
                    ELSE <<SystemMessage(s), HumanMessage(s)>>
        parsed == json_loads(resp.content)
        summary == IF parsed # None THEN Val(parsed) ELSE [raw |-> resp.content]
        out == [s EXCEPT !.messages = Some(Append(messages, resp)),
                         !.best_option = Some(summary)]
    IN  RetMut(out, c, out)

\* mutant: an answer with content ends the loop, whatever tools it asks for
route_after_agent_by_content(s) ==
    LET last == Val(s.messages)[Len(Val(s.messages))]
    IN  IF last.content = "" THEN "tools" ELSE "finalize"

\* mutant: a final answer goes straight to create_event
route_after_agent_skips_finalize(s) ==
    LET last == Val(s.messages)[Len(Val(s.messages))]
    IN  IF "tool_calls" \in DOMAIN last /\ last.tool_calls # <<>> THEN "tools" ELSE "create_event"

\* route_after_agent: the name of the node after agent
route_after_agent(s) ==
    LET last == Val(s.messages)[Len(Val(s.messages))]
    IN  IF "tool_calls" \in DOMAIN last /\ last.tool_calls # <<>> THEN "tools" ELSE "finalize"

\* ToolNode(tools): one tool-response turn for each tool request of the latest
\* agent turn, in order
RECURSIVE ToolTurns(_)
ToolTurns(tool_calls) ==
    IF tool_calls = <<>> THEN <<>>
    ELSE <<[role |-> "tool", name |-> Head(tool_calls)]>> \o ToolTurns(Tail(tool_calls))

\* ToolNode returns {"messages": [the tool-response turns]}; CallState declares
\* messages without a reducer, so the update replaces the list
node_tools(s, c) ==
    LET last == Val(s.messages)[Len(Val(s.messages))]
    IN  Ret([s EXCEPT !.messages = Some(ToolTurns(last.tool_calls))], c)

node_finalize(s, c) ==
    LET last == Val(s.messages)[Len(Val(s.messages))]
    IN  Ret([s EXCEPT !.result_text = Some(IF "content" \in DOMAIN last THEN last.content ELSE "")], c)

\* lines 606-624: the dummy appointment, for the clock reading now
PlaceholderHour == 10
PlaceholderMinutes == 30
DayOf(now) == now \div (HoursPerDay * MinutesPerHour)
PlaceholderSlot(now) ==
    [start |-> At(DayOf(now) + 1, PlaceholderHour, 0),
     end |-> At(DayOf(now) + 1, PlaceholderHour, 0) + PlaceholderMinutes]
PlaceholderProvider ==
    [id |-> "dummy_provider_1", name |-> "General Medical Clinic",
     address |-> "Berlin, Germany", rating |-> 0, distance_km |-> 0]
Placeholder(now) ==
    [provider |-> PlaceholderProvider, slot |-> PlaceholderSlot(now), score |-> 0]

\* clock readings: in the morning of one day, at midnight of the next
Nows == {At(0, 9, 15), At(1, 0, 0)}

\* lines 594-599
has_valid_appointment(d) ==
    /\ d # EmptyDict
    /\ "provider" \in DOMAIN d /\ d.provider # EmptyDict
    /\ "slot" \in DOMAIN d /\ d.slot # EmptyDict

\* f"{state.get('specialty', 'Medical').title()} Appointment - {provider['name']}"
AgentEventTitle(s, provider) ==
    <<TitleCase(Get(s.specialty, "Medical")), " Appointment - ", provider.name>>

\* mutant: an invalid best_option is left as it is and no event is created
node_create_calendar_event_no_placeholder(s, c, now) ==
    LET given == Get(s.best_option, EmptyDict)
    IN  IF has_valid_appointment(given) /\ {"start", "end"} \subseteq DOMAIN given.slot
           /\ "name" \in DOMAIN given.provider
        THEN LET title == AgentEventTitle(s, given.provider)
                 location == IF "address" \in DOMAIN given.provider
                             THEN given.provider.address ELSE ""
             IN  Ret([s EXCEPT !.event_id =
                          Some(create_calendar_event(title, given.slot, location))],
                     [c EXCEPT !.isFree = Append(@, given.slot),
                               !.createEvent = Append(@, [title |-> title, slot |-> given.slot,
                                                          location |-> location])])
        ELSE Ret([s EXCEPT !.event_id = None], c)

\* mutant: only the missing half of the appointment is taken from the dummy
node_create_calendar_event_fills_missing(s, c, now) ==
    LET given == Get(s.best_option, EmptyDict)
        valid == has_valid_appointment(given)
        details == IF valid THEN given
                   ELSE [provider |-> IF "provider" \in DOMAIN given /\ given.provider # EmptyDict
                                      THEN given.provider ELSE PlaceholderProvider,
                         slot |-> IF "slot" \in DOMAIN given /\ given.slot # EmptyDict
                                  THEN given.slot ELSE PlaceholderSlot(now),
                         score |-> 0]
        held == IF valid THEN s ELSE [s EXCEPT !.best_option = Some(details)]
        slot == details.slot
    IN  IF {"start", "end"} \subseteq DOMAIN slot
        THEN LET c1 == [c EXCEPT !.isFree = Append(@, [start |-> slot.start, end |-> slot.end])]
                 provider == details.provider
             IN  IF "name" \notin DOMAIN provider
                 THEN Raise(s, c1, "KeyError")
                 ELSE LET title == AgentEventTitle(s, provider)
                          location == IF "address" \in DOMAIN provider
                                      THEN provider.address ELSE ""
                          event_id == create_calendar_event(title, slot, location)
                          c2 == [c1 EXCEPT !.createEvent =
                                     Append(@, [title |-> title, slot |-> slot,
                                                location |-> location])]
                      IN  RetMut([held EXCEPT !.event_id = Some(event_id)], c2, held)
        ELSE RetMut([held EXCEPT !.event_id = None], c, held)

\* node_create_calendar_event writes the dummy appointment into the record it
\* was given; event_id goes into the new record it returns
node_create_calendar_event(s, c, now) ==
    LET given == Get(s.best_option, EmptyDict)
        valid == has_valid_appointment(given)
        details == IF valid THEN given ELSE Placeholder(now)
        held == IF valid THEN s ELSE [s EXCEPT !.best_option = Some(details)]
        slot == details.slot
    IN  IF {"start", "end"} \subseteq DOMAIN slot
        THEN LET c1 == [c EXCEPT !.isFree = Append(@, [start |-> slot.start, end |-> slot.end])]
                 provider == details.provider
             IN  IF "name" \notin DOMAIN provider
                 THEN Raise(s, c1, "KeyError")
                 ELSE LET title == AgentEventTitle(s, provider)
                          location == IF "address" \in DOMAIN provider
                                      THEN provider.address ELSE ""
                          event_id == create_calendar_event(title, slot, location)
                          c2 == [c1 EXCEPT !.createEvent =
                                     Append(@, [title |-> title, slot |-> slot,
                                                location |-> location])]
                      IN  RetMut([held EXCEPT !.event_id = Some(event_id)], c2, held)
        ELSE RetMut([held EXCEPT !.event_id = None], c, held)

\* what the text-to-speech hook meets when use_speech is on
SpeakOutcomes == {"import_failed", "no_key", "played"}
ErrImport == "ElevenLabs import failed: No module named 'elevenlabs'"
ErrNoKey == "Missing ELEVENLABS_API_KEY"

node_speak_user(s, c, outcome) ==
    IF ~s.use_speech THEN Ret(s, c)
    ELSE CASE outcome = "import_failed" -> Ret([s EXCEPT !.error = Some(ErrImport)], c)
           [] outcome = "no_key" -> Ret([s EXCEPT !.error = Some(ErrNoKey)], c)
           [] OTHER -> Ret(s, c)

----------------------------------------------------------------------------
(* The Agent Pipeline: entry points and state machine *)

\* the request fields a caller puts into the initial record: none (POST
\* /chat), the defaults of the API, values of the caller's own, a zero radius
Caller(specialty, time_window, radius_km, user_location) ==
    [specialty |-> specialty, time_window |-> time_window, radius_km |-> radius_km,
     user_location |-> user_location]
CallerFields ==
    { Caller(None, None, None, None),
      Caller(Some("dentist"), Some("this week afternoons"), Some(AgentDefaultRadius), Some("Berlin")),
      Caller(Some("cardiologist"), Some("next week"), Some(2 * AgentDefaultRadius), Some("Munich")),
      Caller(Some("cardiologist"), Some("next week"), Some(NearRadius - 10), Some("Munich")),
      Caller(Some("cardiologist"), None, Some(0), None) }

\* the init_state of api.py (lines 22-30, 162-170, 208-212) and run.py
AgentRecord(caller, user_text, use_speech) ==
    [specialty |-> caller.specialty,
     time_window |-> caller.time_window,
     radius_km |-> caller.radius_km,
     user_location |-> caller.user_location,
     transcript |-> <<>>,
     use_speech |-> use_speech,
     user_text |-> user_text,
     messages |-> None,
     best_option |-> None,
     result_text |-> None,
     event_id |-> None,
     preferred_provider |-> None,
     urgency |-> None,
     error |-> None]

\* the calendar behind CreateEvent: the stub, Google Calendar up, Google
\* Calendar failing; the directory and the reservation port are not called
AgentFixtures ==
    { f \in Fixtures :
        /\ f.search.throws
        /\ f.reserve
        /\ f.calendar.busy = {}
        /\ f.calendar.backend \in {"up", "http_error"} }

InitAgent ==
    /\ ports \in AgentFixtures
    /\ mode = "agent"
    /\ \E caller \in CallerFields, user_text \in {None, Some(UserText)}, use_speech \in BOOLEAN :
           init_state = AgentRecord(caller, user_text, use_speech)
    /\ state = init_state
    /\ pc = "listen_user"
    /\ calls = NoCalls
    /\ hist = <<>>
    /\ run = 1
    /\ first = None

\* one node of the agent graph: as Step, with the input the node drew from
\* its environment
AStep(name, r, next, input) ==
    /\ pc = name
    /\ mode = "agent"
    /\ calls' = r.calls
    /\ IF r.exc # None
       THEN /\ pc' = "crashed"
            /\ UNCHANGED <<state, hist>>
       ELSE /\ pc' = next
            /\ state' = r.state
            /\ hist' = Append(hist, [step |-> name, pre |-> state, post |-> r.state,
                                      cpre |-> calls, cpost |-> r.calls,
                                      held |-> Held(r, state), input |-> input])
    /\ UNCHANGED <<ports, mode, init_state, run, first>>

\* the number of Agent steps taken
AgentTurns == Cardinality({j \in 1..Len(hist) : hist[j].step = "agent"})

\* typed input can end (None); a transcription is a text
ListenUser ==
    \E heard \in Heard :
        /\ pc = "listen_user" /\ mode = "agent"
        /\ state.use_speech => heard # "None"
        /\ AStep("listen_user", node_listen_user(state, calls, heard),
                 "extract_preferences",
                 [heard |-> heard])

\* without user_text no extraction call is made
ExtractPreferences ==
    \E ex \in ExtractionOutcomes :
        /\ pc = "extract_preferences" /\ mode = "agent"
        /\ ~TruthyStr(state.user_text) => ex.kind = "no_json"
        /\ AStep("extract_preferences", node_extract_preferences(state, calls, ex), "agent",
                 [ex |-> ex])

\* add_conditional_edges("agent", route_after_agent, ...); the model follows
\* the reasoning model for MaxTurns requests for tools
Agent ==
    \E resp \in Responses :
        /\ pc = "agent" /\ mode = "agent"
        /\ resp.tool_calls # <<>> => AgentTurns < MaxTurns
        /\ AStep("agent", node_agent(state, calls, resp),
                 route_after_agent(node_agent(state, calls, resp).state), [resp |-> resp])

Tools ==
    AStep("tools", node_tools(state, calls), "agent", EmptyDict)

Finalize ==
    AStep("finalize", node_finalize(state, calls), "create_event", EmptyDict)

CreateEvent ==
    \E now \in Nows :
        AStep("create_event", node_create_calendar_event(state, calls, now), "speak_user",
              [now |-> now])

SpeakUser ==
    \E outcome \in SpeakOutcomes :
        /\ pc = "speak_user" /\ mode = "agent"
        /\ ~state.use_speech => outcome = "played"
        /\ AStep("speak_user", node_speak_user(state, calls, outcome), "END",
                 [outcome |-> outcome])

NextAgent ==
    \/ ListenUser
    \/ ExtractPreferences
    \/ Agent
    \/ Tools
    \/ Finalize
    \/ CreateEvent
    \/ SpeakUser

SpecAgent == InitAgent /\ [][NextAgent]_vars

\* both pipelines
SpecAll == (Init \/ InitAgent) /\ [][Next \/ NextAgent]_vars

----------------------------------------------------------------------------
(* Properties *)

GuardedSteps == {"call_provider", "choose_slot", "reserve_and_book"}

\* the entries of hist for one node
Entries(name) == {j \in 1..Len(hist) : hist[j].step = name}

\* C1: a node after the first that is given a record with error set returns
\* that record unchanged and calls no port; done changes only result; and in
\* the graph and in the split pair the error a node returns is the error the
\* next node is given.
C1_ErrorShortCircuit ==
    \A j \in 1..Len(hist) :
        /\ (hist[j].step \in GuardedSteps /\ TruthyStr(hist[j].pre.error)) =>
               /\ hist[j].post = hist[j].pre
               /\ hist[j].cpost = hist[j].cpre
        /\ (hist[j].step = "done" /\ TruthyStr(hist[j].pre.error)) =>
               /\ \A k \in DOMAIN state \ {"result"} : hist[j].post[k] = hist[j].pre[k]
               /\ hist[j].post.result # None
               /\ hist[j].cpost = hist[j].cpre
        /\ (j > 1 /\ mode # "api") => hist[j].pre.error = hist[j - 1].post.error

\* C1 witness: the search found nothing and all four later nodes have run
C1_Witness ==
    /\ pc = "END"
    /\ Len(hist) = 5
    /\ hist[1].post.error = Some(ErrNoProviders)
    /\ hist[2].step = "call_provider"
    /\ hist[4].step = "reserve_and_book"

\* ReserveAndBook assembled a result in this run
Assembled ==
    \E j \in Entries("reserve_and_book") :
        TruthyColl(hist[j].post.result) /\ ~TruthyColl(hist[j].pre.result)

\* the record the current run was entered with carried a result already
EnteredWithResult == hist # <<>> /\ TruthyColl(hist[1].pre.result)

\* the done entry of the current run
DoneEntry == hist[Len(hist)]

\* C2 as claimed: the record done returns carries a result whose status is
\* failed, success or completed; failed exactly when error is set and
\* ReserveAndBook assembled no result, success exactly when it assembled one.
C2_Original ==
    pc = "END" =>
        /\ state.result # None
        /\ Val(state.result).status \in {"failed", "success", "completed"}
        /\ Val(state.result).status = "failed" <=> (TruthyStr(state.error) /\ ~Assembled)
        /\ Val(state.result).status = "success" <=> Assembled

\* C2 as amended: the status is one of the three; it is failed exactly when
\* the record done is given has error set and no result, success exactly when
\* that record has a result; and for a run entered with a record without
\* result, having a result there is having had ReserveAndBook assemble one.
C2_FinalStatus ==
    pc = "END" =>
        /\ state.result # None
        /\ Val(state.result).status \in {"failed", "success", "completed"}
        /\ DoneEntry.step = "done"
        /\ Val(state.result).status = "failed" <=>
               (TruthyStr(DoneEntry.pre.error) /\ ~TruthyColl(DoneEntry.pre.result))
        /\ Val(state.result).status = "success" <=> TruthyColl(DoneEntry.pre.result)
        /\ ~EnteredWithResult =>
               /\ Val(state.result).status = "failed" <=> (TruthyStr(state.error) /\ ~Assembled)
               /\ Val(state.result).status = "success" <=> Assembled

\* C2 witness: ConfirmLocalBooking on a posted record ends failed on a refused
\* reservation
C2_Witness ==
    /\ pc = "END"
    /\ mode = "api"
    /\ state.error = Some(ErrReservation)
    /\ Val(state.result).status = "failed"

\* C3 as claimed: a directory search that raises does not end the run in an
\* unhandled exception; the run goes on to done with error set and a failed
\* result.
C3_SearchFailureHandled ==
    (ports.search.throws /\ calls.search > 0) =>
        /\ pc # "crashed"
        /\ pc = "END" => (TruthyStr(state.error) /\ Val(state.result).status = "failed")

\* the graph or the split pair ran from the search on (not a posted record,
\* not a repeated confirmation)
WholeRun == mode # "api" /\ run < 3

\* C4: after an empty search result a whole run ends with
\* result = {status: failed, error: "No providers found in radius.", transcript},
\* no provider in the record, and no call of the negotiation, calendar,
\* reservation or event-creation port.
C4_EmptyDirectory ==
    (WholeRun /\ ~ports.search.throws /\ ports.search.providers = <<>> /\ calls.search > 0) =>
        /\ state.provider = None
        /\ calls.negotiate = 0
        /\ calls.isFree = <<>>
        /\ calls.reserve = <<>>
        /\ calls.createEvent = <<>>
        /\ pc # "crashed"
        /\ pc = "END" =>
               state.result = Some([status |-> "failed",
                                    error |-> ErrNoProviders,
                                    transcript |-> state.transcript])

C4_Witness ==
    /\ pc = "END"
    /\ mode = "full"
    /\ ~ports.search.throws
    /\ ports.search.providers = <<>>
    /\ Val(state.result).status = "failed"

\* the negotiation of this run answered with no slots for a selected provider
NegotiatedNoSlots ==
    \E j \in Entries("call_provider") :
        /\ TruthyColl(hist[j].pre.provider)
        /\ hist[j].cpost.negotiate = hist[j].cpre.negotiate + 1
        /\ hist[j].post.proposed_slots = Some(<<>>)

\* C5: a provider was found and the negotiation returned no slots: from
\* choose_slot on error is exactly "Provider had no slots.", and the run ends
\* with a failed result carrying that error.
C5_NoSlots ==
    (WholeRun /\ NegotiatedNoSlots) =>
        /\ pc \in {"proposal", "reserve_and_book", "done", "END"} => state.error = Some(ErrNoSlots)
        /\ pc # "crashed"
        /\ pc = "END" =>
               /\ Val(state.result).status = "failed"
               /\ Val(state.result).error = ErrNoSlots

C5_Witness ==
    /\ pc = "END"
    /\ WholeRun
    /\ NegotiatedNoSlots
    /\ Val(state.result).error = ErrNoSlots

\* the indices of the calendar-free slots of a list, by the calendar port
FreeIndices(slots) == {i \in 1..Len(slots) : check_calendar_free(slots[i])}

\* choose_slot was given, without error, a non-empty list with no free slot
NoneFree(j) ==
    /\ hist[j].step = "choose_slot"
    /\ ~TruthyStr(hist[j].pre.error)
    /\ TruthyColl(hist[j].pre.proposed_slots)
    /\ FreeIndices(Val(hist[j].pre.proposed_slots)) = {}

\* C6: no proposed slot is calendar-free: choose_slot returns calendar_ok =
\* false, error = "No proposed slot fits calendar.", chosen_slot unset, and the
\* run ends failed without a call of reserve or createEvent.
C6_NoSlotFits ==
    \A j \in 1..Len(hist) : NoneFree(j) =>
        /\ hist[j].post.calendar_ok = Some(FALSE)
        /\ hist[j].post.error = Some(ErrNoSlotFits)
        /\ hist[j].post.chosen_slot = None
        /\ WholeRun =>
               /\ calls.reserve = <<>>
               /\ calls.createEvent = <<>>
               /\ pc # "crashed"
               /\ pc = "END" =>
                      /\ Val(state.result).status = "failed"
                      /\ Val(state.result).error = ErrNoSlotFits

C6_Witness ==
    /\ pc = "END"
    /\ mode = "full"
    /\ \E j \in 1..Len(hist) : NoneFree(j) /\ Len(Val(hist[j].pre.proposed_slots)) = MaxOffered

\* the lowest index of a calendar-free slot of a list that has one
FirstFreeIndex(slots) ==
    CHOOSE i \in FreeIndices(slots) : \A k \in FreeIndices(slots) : i <= k

\* C7: a whole run in which a provider was found, a proposed slot is
\* calendar-free and the reservation succeeded ends with status success, the
\* first calendar-free proposed slot as result.slot, a non-empty event_id that
\* is the record's event_id, reservation_ok = true and the Scorer's score of
\* the selected provider and the chosen slot.
C7_HappyPath ==
    (/\ WholeRun
     /\ pc = "END"
     /\ TruthyColl(state.provider)
     /\ TruthyColl(state.proposed_slots)
     /\ FreeIndices(Val(state.proposed_slots)) # {}
     /\ ports.reserve) =>
        LET slots == Val(state.proposed_slots)
            res == Val(state.result)
        IN  /\ res.status = "success"
            /\ res.slot = slots[FirstFreeIndex(slots)]
            /\ state.chosen_slot = Some(res.slot)
            /\ res.event_id # <<>>
            /\ state.event_id = Some(res.event_id)
            /\ state.reservation_ok = Some(TRUE)
            /\ res.score = score(Val(hist[1].post.provider), Val(state.chosen_slot))
            /\ res.provider.id = Val(hist[1].post.provider).id
            /\ Len(calls.createEvent) = 1

\* C7 witness (scenario D): slot 1 busy, slot 2 free, reservation succeeds
C7_Witness ==
    /\ pc = "END"
    /\ mode = "full"
    /\ TruthyColl(state.proposed_slots)
    /\ Len(Val(state.proposed_slots)) >= 2
    /\ ~check_calendar_free(Val(state.proposed_slots)[1])
    /\ check_calendar_free(Val(state.proposed_slots)[2])
    /\ Val(state.result).status = "success"

\* choose_slot ran its loop: no error on entry and a non-empty list
Looped(j) ==
    /\ hist[j].step = "choose_slot"
    /\ ~TruthyStr(hist[j].pre.error)
    /\ TruthyColl(hist[j].pre.proposed_slots)

\* C8: choose_slot is first-fit: the chosen slot is the lowest-index slot the
\* calendar reports free, the calendar is asked about the slots up to it in
\* order and about none after it; with no free slot every slot is asked once
\* and none is chosen.
C8_FirstFit ==
    \A j \in 1..Len(hist) : Looped(j) =>
        LET slots == Val(hist[j].pre.proposed_slots)
            asked == SubSeq(hist[j].cpost.isFree, Len(hist[j].cpre.isFree) + 1,
                            Len(hist[j].cpost.isFree))
        IN  IF FreeIndices(slots) # {}
            THEN /\ hist[j].post.chosen_slot = Some(slots[FirstFreeIndex(slots)])
                 /\ asked = SubSeq(slots, 1, FirstFreeIndex(slots))
            ELSE /\ hist[j].post.chosen_slot = None
                 /\ asked = slots

\* C8 witness: three slots with isFree = false, true, true; the second is chosen
C8_Witness ==
    \E j \in 1..Len(hist) :
        /\ Looped(j)
        /\ Len(Val(hist[j].pre.proposed_slots)) = 3
        /\ LET slots == Val(hist[j].pre.proposed_slots)
           IN  /\ FreeIndices(slots) = {2, 3}
               /\ hist[j].post.chosen_slot = Some(slots[2])

\* C9: from a non-empty directory result pick_provider selects a provider of
\* minimum distance_km, and among those of minimum distance the one that comes
\* first in the order the directory returned.
C9_ClosestFirst ==
    \A j \in Entries("pick_provider") :
        (~ports.search.throws /\ ports.search.providers # <<>>) =>
            LET l == ports.search.providers
                sel == hist[j].post.provider
            IN  /\ sel # None
                /\ \E i \in 1..Len(l) :
                       /\ l[i] = Val(sel)
                       /\ \A k \in 1..Len(l) : l[i].distance_km <= l[k].distance_km
                       /\ \A k \in 1..(i - 1) : l[k].distance_km > l[i].distance_km

\* C9 witness: two providers tie on the minimum and the first listed is selected
C9_Witness ==
    \E j \in Entries("pick_provider") :
        /\ Len(ports.search.providers) = 2
        /\ ports.search.providers[1].distance_km = ports.search.providers[2].distance_km
        /\ hist[j].post.provider = Some(ports.search.providers[1])

----------------------------------------------------------------------------
(* Proposal / confirm split *)

\* run_local_proposal has just returned: its three nodes ran and the proposal
\* is in the record
ProposalReturned ==
    /\ state.proposal # None
    /\ hist # <<>>
    /\ hist[Len(hist)].step = "choose_slot"

\* C12: when RunLocalProposal returns, Reservation.reserve and
\* CalendarPort.createEvent have not been called, reservation_ok, event_id and
\* result are unset, and the proposal holds the provider, chosen_slot,
\* calendar_ok, error and transcript of the returned record.
C12_ProposalOnly ==
    ProposalReturned =>
        /\ calls.reserve = <<>>
        /\ calls.createEvent = <<>>
        /\ state.reservation_ok = None
        /\ state.event_id = None
        /\ state.result = None
        /\ Val(state.proposal).provider = state.provider
        /\ Val(state.proposal).slot = state.chosen_slot
        /\ Val(state.proposal).calendar_ok = state.calendar_ok
        /\ Val(state.proposal).error = state.error
        /\ Val(state.proposal).transcript = state.transcript

\* a proposal with a chosen slot, after the calendar was asked more than once
C12_Witness ==
    /\ ProposalReturned
    /\ state.chosen_slot # None
    /\ state.calendar_ok = Some(TRUE)
    /\ Len(calls.isFree) > 1
    /\ calls.negotiate = 1

\* the steps run_local_proposal executes
ProposalSteps == {"pick_provider", "call_provider", "choose_slot"}

\* entries j and k of hist belong to the same threaded record: POST /confirm
\* builds a record of its own, so in api mode the proposal steps and the
\* confirmation steps are two runs
SameRun(j, k) ==
    mode = "api" => ((hist[j].step \in ProposalSteps) <=> (hist[k].step \in ProposalSteps))

\* step j is the one that set error
SetsError(j) == ~TruthyStr(hist[j].pre.error) /\ TruthyStr(hist[j].post.error)

\* C13: once a step of a run has set error to e, every later record of that
\* run has error = e, and the result Finalize builds is failed with error e.
C13_ErrorSticks ==
    \A j \in 1..Len(hist) :
        SetsError(j) =>
            \A k \in (j + 1)..Len(hist) :
                SameRun(j, k) =>
                    /\ hist[k].pre.error = hist[j].post.error
                    /\ hist[k].post.error = hist[j].post.error
                    /\ hist[k].step = "done" =>
                           /\ hist[k].post.result # None
                           /\ Val(hist[k].post.result).status = "failed"
                           /\ Val(hist[k].post.result).error = Val(hist[j].post.error)

\* an error set by the calendar step is carried through booking to Finalize
C13_Witness ==
    /\ pc = "END"
    /\ \E j \in Entries("choose_slot") :
           /\ SetsError(j)
           /\ hist[j].post.error = Some(ErrNoSlotFits)
           /\ \E k \in Entries("reserve_and_book") : k > j /\ SameRun(j, k)
    /\ Val(state.result).status = "failed"

\* chosen_slot, if present in record r, is one of r's proposed_slots
ChosenIsProposed(r) ==
    r.chosen_slot # None =>
        /\ r.proposed_slots # None
        /\ \E i \in 1..Len(Val(r.proposed_slots)) :
               Val(r.proposed_slots)[i] = Val(r.chosen_slot)

----------------------------------------------------------------------------
(* Agent Pipeline *)

\* best_option d names no appointment: it lacks a provider or a slot (the
\* empty object and the raw-text fallback lack both)
LacksAppointment(d) == "provider" \notin DOMAIN d \/ "slot" \notin DOMAIN d

MinutesPerDay == HoursPerDay * MinutesPerHour

\* C16: when the reasoning loop leaves a best_option without an appointment,
\* CreateEvent puts the placeholder in its place (the fixed fallback provider
\* and a 30-minute slot at 10:00 of the day after the clock reading), calls
\* CalendarPort.createEvent once with the placeholder's slot, provider name and
\* address, and sets event_id to the non-null id that call returned.
C16_PlaceholderEvent ==
    \A j \in Entries("create_event") :
        LET e == hist[j]
            given == Get(e.pre.best_option, EmptyDict)
            now == e.input.now
            made == Val(e.post.best_option)
            title == <<TitleCase(Val(e.pre.specialty)), " Appointment - ",
                       "General Medical Clinic">>
            request == [title |-> title, slot |-> made.slot, location |-> "Berlin, Germany"]
        IN  LacksAppointment(given) =>
                /\ e.post.best_option # None
                /\ ~LacksAppointment(made)
                /\ made.provider.id = "dummy_provider_1"
                /\ made.provider.name = "General Medical Clinic"
                /\ made.slot.start \div MinutesPerDay = now \div MinutesPerDay + 1
                /\ made.slot.start % MinutesPerDay = 10 * MinutesPerHour
                /\ made.slot.end - made.slot.start = 30
                /\ e.cpost.createEvent = Append(e.cpre.createEvent, request)
                /\ e.post.event_id # None
                /\ Val(e.post.event_id) # <<>>
                /\ Val(e.post.event_id) =
                       create_calendar_event(title, made.slot, "Berlin, Germany")

\* the loop ended on an answer that is not JSON, read at midnight, and the
\* run went on to its end with an event for the placeholder
C16_Witness ==
    /\ mode = "agent"
    /\ pc = "END"
    /\ \E j \in Entries("create_event") :
           /\ hist[j].pre.best_option = Some([raw |-> ContentProse])
           /\ hist[j].input.now = At(1, 0, 0)
           /\ Val(hist[j].post.best_option).slot.start = At(2, 10, 0)
           /\ hist[j].post.event_id # None

\* C17: for every best_option the loop leaves behind, CreateEvent calls
\* CalendarPort.createEvent exactly once and returns a record with a non-null
\* event_id; no run ends inside CreateEvent.
C17_AlwaysCreates ==
    /\ \A j \in Entries("create_event") :
           /\ Len(hist[j].cpost.createEvent) = Len(hist[j].cpre.createEvent) + 1
           /\ hist[j].post.event_id # None
    /\ (mode = "agent" /\ pc = "crashed") => hist[Len(hist)].step # "finalize"

\* CreateEvent has returned a record without event_id and has not called
\* CalendarPort.createEvent: the answer's slot had a start and no end
C17_Witness ==
    \E j \in Entries("create_event") :
        /\ hist[j].pre.best_option = json_loads(ContentNoEnd)
        /\ hist[j].post.event_id = None
        /\ hist[j].cpost.createEvent = hist[j].cpre.createEvent

\* the step the wiring names after entry e: Tools after an agent turn that
\* carries a tool request, Finalize after one that carries none
Successor(e) ==
    CASE e.step = "listen_user" -> "extract_preferences"
      [] e.step = "extract_preferences" -> "agent"
      [] e.step = "agent" -> IF e.input.resp.tool_calls # <<>> THEN "tools" ELSE "finalize"
      [] e.step = "tools" -> "agent"
      [] e.step = "finalize" -> "create_event"
      [] e.step = "create_event" -> "speak_user"
      [] e.step = "speak_user" -> "END"

\* C18: in an agent run every step is followed by the one step the wiring
\* names for it: after Agent, Tools if the latest agent turn carries a tool
\* request and Finalize otherwise; after Tools, Agent; every other step has a
\* single successor (a step that raises ends the run and has none).
C18_Routing ==
    mode = "agent" =>
        \A j \in 1..Len(hist) :
            /\ j < Len(hist) => hist[j + 1].step = Successor(hist[j])
            /\ (j = Len(hist) /\ pc # "crashed") => pc = Successor(hist[j])

\* a run went Agent, Tools, Agent, Finalize: the first answer asked for two
\* tools and had content, the second asked for none
C18_Witness ==
    /\ mode = "agent"
    /\ pc = "create_event"
    /\ \E j \in Entries("agent") :
           /\ Len(hist[j].input.resp.tool_calls) = 2
           /\ hist[j].input.resp.content # ""
           /\ hist[j + 1].step = "tools"
           /\ hist[j + 2].step = "agent"
           /\ hist[j + 3].step = "finalize"

\* the reasoning model has given an answer without a tool request
FinalAnswerGiven ==
    \E j \in Entries("agent") : hist[j].input.resp.tool_calls = <<>>

\* C19: a run whose reasoning loop has ended on an answer without a tool
\* request is at Finalize, CreateEvent or SpeakUser, or has reached End.
C19_ReachesEnd ==
    (mode = "agent" /\ FinalAnswerGiven) =>
        pc \in {"finalize", "create_event", "speak_user", "END"}

\* the loop ended after MaxTurns rounds of tools and the run stopped in
\* CreateEvent, before SpeakUser and End
C19_Witness ==
    /\ mode = "agent"
    /\ pc = "crashed"
    /\ FinalAnswerGiven
    /\ Cardinality(Entries("tools")) = MaxTurns
    /\ hist[Len(hist)].step = "finalize"

\* the fields of the request
RequestFields == {"specialty", "time_window", "radius_km", "user_location"}

\* field f of record r is set: present, and not the empty string or zero
\* (which the node's own tests take for unset)
IsSet(r, f) == IF f = "radius_km" THEN TruthyNum(r[f]) ELSE TruthyStr(r[f])

NearHint(e) ==
    /\ TruthyStr(e.pre.user_text)
    /\ e.input.ex.kind = "json"
    /\ e.input.ex.extracted.location_preference \in
           {Some("Close to Alexanderplatz"), Some("nearby")}

----------------------------------------------------------------------------
(* Both pipelines *)

\* sequence a is a prefix of sequence b
IsPrefix(a, b) == Len(a) <= Len(b) /\ SubSeq(b, 1, Len(a)) = a

\* C11: for every step of both pipelines the transcript of the record the
\* step returns has the transcript of the record it was given as a prefix.
C11_TranscriptAppendOnly ==
    \A j \in 1..Len(hist) : IsPrefix(hist[j].pre.transcript, hist[j].post.transcript)

\* a Local run ended with a transcript that grew in SelectProvider, in
\* NegotiateSlots and after it, its first line still the first
C11_Witness ==
    /\ pc = "END"
    /\ mode = "full"
    /\ Len(state.transcript) > Len(hist[2].post.transcript)
    /\ Len(hist[2].post.transcript) > Len(hist[1].post.transcript)
    /\ hist[1].post.transcript # <<>>
    /\ state.transcript[1] = hist[1].post.transcript[1]

\* C15: every step of both pipelines leaves the record it was given, and the
\* payloads reachable from it, as they were: the holder of the input record
\* sees after the step what it saw before.
C15_CopyOnWrite ==
    \A j \in 1..Len(hist) : hist[j].held = hist[j].pre

\* Finalize of a Local run has written status and transcript into the result
\* of the record it was given
C15_Witness ==
    \E j \in Entries("done") :
        /\ hist[j].held # hist[j].pre
        /\ "status" \notin DOMAIN Val(hist[j].pre.result)
        /\ Val(hist[j].held.result).status = "success"

----------------------------------------------------------------------------
(* ExtractPreferences: defaults *)

\* the extraction call of entry e was made and answered with a JSON object
GaveJson(e) == TruthyStr(e.pre.user_text) /\ e.input.ex.kind = "json"

\* the extraction of entry e supplied a value for request field f: a non-empty
\* specialty or time_window, a radius float() accepts, or a location
\* preference with a near hint (which decides radius_km); never user_location
Supplied(e, f) ==
    IF ~GaveJson(e) THEN FALSE
    ELSE LET x == e.input.ex.extracted
         IN  CASE f = "specialty" -> TruthyStr(x.specialty)
               [] f = "time_window" -> TruthyStr(x.time_window)
               [] f = "radius_km" ->
                      \/ NearHint(e)
                      \/ (TruthyJson(x.radius_km) /\ "num" \in DOMAIN Val(x.radius_km))
               [] OTHER -> FALSE

\* C21: for every input record and every extraction outcome ExtractPreferences
\* returns (it never raises) a record with specialty, time_window, radius_km
\* and user_location all set; a field the caller left unset and the extraction
\* did not supply holds dentist, this week, 5.0, Berlin respectively.
C21_DefaultsFilled ==
    /\ (mode = "agent" /\ pc = "crashed") => Entries("extract_preferences") # {}
    /\ \A j \in Entries("extract_preferences") :
           LET e == hist[j]
           IN  /\ \A f \in RequestFields : IsSet(e.post, f)
               /\ (~IsSet(e.pre, "specialty") /\ ~Supplied(e, "specialty"))
                      => e.post.specialty = Some("dentist")
               /\ (~IsSet(e.pre, "time_window") /\ ~Supplied(e, "time_window"))
                      => e.post.time_window = Some("this week")
               /\ (~IsSet(e.pre, "radius_km") /\ ~Supplied(e, "radius_km"))
                      => e.post.radius_km = Some(50)
               /\ (~IsSet(e.pre, "user_location") /\ ~Supplied(e, "user_location"))
                      => e.post.user_location = Some("Berlin")

\* the caller set no request field, the extraction call raised, and the record
\* came back with the four defaults
C21_Witness ==
    \E j \in Entries("extract_preferences") :
        /\ \A f \in RequestFields : hist[j].pre[f] = None
        /\ TruthyStr(hist[j].pre.user_text)
        /\ hist[j].input.ex.kind = "raise"
        /\ hist[j].post.specialty = Some("dentist")
        /\ hist[j].post.time_window = Some("this week")
        /\ hist[j].post.radius_km = Some(50)
        /\ hist[j].post.user_location = Some("Berlin")

----------------------------------------------------------------------------
(* NegotiateSlots: no availability *)

\* call_provider entry j called the receptionist for a provider without
\* openings, so the answer was ok = false with no slots
NoAvailability(j) ==
    /\ hist[j].step = "call_provider"
    /\ ~TruthyStr(hist[j].pre.error)
    /\ TruthyColl(hist[j].pre.provider)
    /\ hist[j].cpost.negotiate = hist[j].cpre.negotiate + 1
    /\ ~simulate_receptionist_call(Val(hist[j].pre.provider), "this week").ok

\* C27 as stated: when the negotiation reports no availability, the record
\* call_provider returns has error set and proposed_slots empty.
C27_Original ==
    \A j \in 1..Len(hist) :
        NoAvailability(j) =>
            /\ hist[j].post.proposed_slots = Some(<<>>)
            /\ TruthyStr(hist[j].post.error)

\* C27: when the negotiation reports no availability, the record
\* call_provider returns has proposed_slots empty and error still unset; the
\* choose_slot step that follows is the one that sets error, to
\* "Provider had no slots.".
C27_ErrorSetByNextStep ==
    \A j \in 1..Len(hist) :
        NoAvailability(j) =>
            /\ hist[j].post.proposed_slots = Some(<<>>)
            /\ hist[j].post.error = None
            /\ (j < Len(hist) /\ hist[j + 1].step = "choose_slot") =>
                   /\ hist[j + 1].pre.error = None
                   /\ hist[j + 1].post.error = Some(ErrNoSlots)

C27_Witness ==
    \E j \in 1..Len(hist) :
        /\ NoAvailability(j)
        /\ hist[j].post.error = None
        /\ j < Len(hist)
        /\ hist[j + 1].step = "choose_slot"
        /\ hist[j + 1].post.error = Some(ErrNoSlots)

----------------------------------------------------------------------------
(* ReserveAndBook: reserve first *)

\* reserve_and_book entry j called reserve_slot
Reserved(j) ==
    /\ hist[j].step = "reserve_and_book"
    /\ Len(hist[j].cpost.reserve) = Len(hist[j].cpre.reserve) + 1

\* C28: in reserve_and_book create_calendar_event and score are called only
\* after reserve_slot returned true in the same step; when reserve_slot
\* returns false the returned record has reservation_ok = false and error =
\* "Reservation failed.", no event is created, event_id stays unset and no
\* result is assembled.
C28_ReserveFirst ==
    /\ mode # "agent" =>
           /\ Len(calls.createEvent) <= Len(calls.reserve)
           /\ calls.score <= Len(calls.reserve)
           /\ (calls.createEvent # <<>> \/ calls.score > 0) => ports.reserve
    /\ \A j \in Entries("reserve_and_book") :
           LET e == hist[j]
               created == Len(e.cpost.createEvent) - Len(e.cpre.createEvent)
               scored == e.cpost.score - e.cpre.score
           IN  /\ created \in {0, 1}
               /\ scored \in {0, 1}
               /\ (created = 1 \/ scored = 1) =>
                      /\ Reserved(j)
                      /\ ports.reserve
                      /\ e.post.reservation_ok = Some(TRUE)
               /\ (Reserved(j) /\ ~ports.reserve) =>
                      /\ created = 0
                      /\ scored = 0
                      /\ e.post.reservation_ok = Some(FALSE)
                      /\ e.post.error = Some(ErrReservation)
                      /\ e.post.event_id = None
                      /\ e.post.result = None

\* a refused reservation: no event, no score, error set
C28_Witness ==
    \E j \in Entries("reserve_and_book") :
        /\ Reserved(j)
        /\ ~ports.reserve
        /\ hist[j].post.reservation_ok = Some(FALSE)
        /\ hist[j].post.error = Some(ErrReservation)
        /\ hist[j].cpost.createEvent = hist[j].cpre.createEvent
        /\ hist[j].cpost.score = hist[j].cpre.score

----------------------------------------------------------------------------
(* ReserveAndBook: result or error *)

\* the record the run of entry j was started from: the graph's or
\* confirm_local_booking's input, the record built from the request for the
\* API's /confirm
StartRecord(j) == IF mode = "api" THEN hist[j].pre ELSE hist[1].pre

\* C29: in a Local Pipeline run started from a record without error and
\* result, the record reserve_and_book returns has exactly one of result and
\* error, and done, given that record, never produces status completed.
C29_ResultXorError ==
    \A j \in Entries("reserve_and_book") :
        (StartRecord(j).error = None /\ StartRecord(j).result = None) =>
            /\ hist[j].pre.result = None
            /\ TruthyColl(hist[j].post.result) # TruthyStr(hist[j].post.error)
            /\ (j < Len(hist) /\ hist[j + 1].step = "done") =>
                   /\ hist[j + 1].pre = hist[j].post
                   /\ Val(hist[j + 1].post.result).status \in {"failed", "success"}
                   /\ Val(hist[j + 1].post.result).status = "success"
                          <=> TruthyColl(hist[j].post.result)

\* a full run whose reservation was refused: error without result, then failed
C29_Witness ==
    /\ pc = "END"
    /\ mode = "full"
    /\ \E j \in Entries("reserve_and_book") :
           /\ StartRecord(j).error = None
           /\ StartRecord(j).result = None
           /\ Reserved(j)
           /\ hist[j].post.error = Some(ErrReservation)
           /\ hist[j].post.result = None
           /\ hist[j + 1].step = "done"
           /\ Val(hist[j + 1].post.result).status = "failed"

----------------------------------------------------------------------------
(* Agent Pipeline: step order *)

OnceSteps == {"listen_user", "extract_preferences", "finalize", "create_event", "speak_user"}

\* C30: a completed Agent Pipeline run visited listen_user,
\* extract_preferences, then agent steps with exactly one tools step between
\* two of them, then finalize, create_event, speak_user; the five steps other
\* than agent and tools ran exactly once; create_event never runs before
\* finalize.
C30_StepOrder ==
    mode = "agent" =>
        /\ \A j \in Entries("create_event") : \E k \in Entries("finalize") : k < j
        /\ \A name \in OnceSteps : Cardinality(Entries(name)) <= 1
        /\ pc = "END" =>
               LET n == Len(hist)
               IN  /\ n >= 6
                   /\ hist[1].step = "listen_user"
                   /\ hist[2].step = "extract_preferences"
                   /\ \A j \in 3..(n - 3) :
                          hist[j].step = IF j % 2 = 1 THEN "agent" ELSE "tools"
                   /\ (n - 3) % 2 = 1
                   /\ hist[n - 2].step = "finalize"
                   /\ hist[n - 1].step = "create_event"
                   /\ hist[n].step = "speak_user"
                   /\ \A name \in OnceSteps : Cardinality(Entries(name)) = 1

\* a completed run with two agent steps around one tools step
C30_Witness ==
    /\ mode = "agent"
    /\ pc = "END"
    /\ Len(hist) = 8
    /\ hist[3].step = "agent"
    /\ hist[4].step = "tools"
    /\ hist[5].step = "agent"
    /\ hist[6].step = "finalize"

----------------------------------------------------------------------------
(* Scorer.score on its own: the inputs are drawn by the initial state *)

\* ratings and distances in tenths; 22 makes 3.0 / (1.0 + distance_km) end in
\* a 5 at the fourth decimal place
ScoreRatings == {0, 40, 45, 47, 50}
ScoreDistances == {0, 10, 12, 22, 50}

\* 2026-01-01 is this many days before the day of the calendar stub's busy block
DaysFromNewYear == 40
NewYearSlot == [start |-> At(0 - DaysFromNewYear, 10, 0), end |-> At(0 - DaysFromNewYear, 10, 30)]

\* provider dicts with and without the two keys score reads
ScoreProviders ==
    { [id |-> "p", rating |-> r, distance_km |-> d] : r \in ScoreRatings, d \in ScoreDistances } \cup
    { [id |-> "p", rating |-> r] : r \in ScoreRatings } \cup
    { [id |-> "p", distance_km |-> d] : d \in ScoreDistances } \cup
    { [id |-> "p"] }

ScoreSlots == SlotPool \cup {NewYearSlot}

InitScore ==
    /\ ports \in {f \in Fixtures : f.search.throws /\ f.reserve /\ ~f.calendar.use_google_apis}
    /\ mode = "score"
    /\ \E provider \in ScoreProviders, slot \in ScoreSlots :
           init_state = [provider |-> provider, slot |-> slot]
    /\ state = init_state
    /\ pc = "score"
    /\ calls = NoCalls
    /\ hist = <<>>
    /\ run = 1
    /\ first = None

\* one call score(provider, slot)
Score ==
    /\ pc = "score"
    /\ mode = "score"
    /\ hist' = Append(hist, [step |-> "score", pre |-> state,
                             post |-> score(state.provider, state.slot)])
    /\ calls' = [calls EXCEPT !.score = @ + 1]
    /\ pc' = "END"
    /\ UNCHANGED <<ports, mode, state, init_state, run, first>>

NextScore == Score

SpecScore == InitScore /\ [][NextScore]_vars

Abs(n) == IF n < 0 THEN 0 - n ELSE n

\* C26: for a provider with rating and distance_km, score returns total =
\* rating * 2.0 + 3.0 / (1.0 + distance_km) rounded to 3 decimal places (the
\* thousandth nearest to the exact value), and explain with the rating, the
\* distance_km and the slot's start; rating 4.0 at distance 1.0 gives 9.5.
C26_ScoreFormula ==
    \A j \in Entries("score") :
        LET p == hist[j].pre.provider
            res == hist[j].post
        IN  {"rating", "distance_km"} \subseteq DOMAIN p =>
                LET den == 10 + p.distance_km
                IN  /\ 2 * Abs(res.total * den - (p.rating * 200 * den + 30000)) <= den
                    /\ res.explain = [rating |-> p.rating, distance_km |-> p.distance_km,
                                      slot_start |-> hist[j].pre.slot.start]
                    /\ (p.rating = 40 /\ p.distance_km = 10) => res.total = 9500

\* the claim's example: rating 4.0, distance 1.0, start 2026-01-01T10:00:00
C26_Witness ==
    \E j \in Entries("score") :
        /\ hist[j].pre.provider = [id |-> "p", rating |-> 40, distance_km |-> 10]
        /\ hist[j].pre.slot = NewYearSlot
        /\ hist[j].post.total = 9500
        /\ hist[j].post.explain.slot_start = NewYearSlot.start

----------------------------------------------------------------------------
(* The tool server, mcp_server.py.  state.providers is the module's global  *)
(* list `providers`; every tool call is one action, made by one of the      *)
(* workflow runs that share the server.                                      *)

\* tool calls served in one behaviour
MaxToolCalls == 3

\* the workflow runs whose agents call the one server
Runs == {1, 2}

ProviderById(id) == CHOOSE p \in ProviderPool : p.id = id
ProviderIds == {p.id : p \in ProviderPool}

\* what search_providers gives the tool for the arguments of one call: it
\* raises, finds nothing, or returns one of these lists
ToolSearchOutcomes ==
    { [throws |-> TRUE, providers |-> <<>>],
      [throws |-> FALSE, providers |-> <<>>],
      [throws |-> FALSE, providers |-> <<ProviderById("clinic_b"), ProviderById("clinic_a")>>],
      [throws |-> FALSE, providers |-> <<ProviderById("clinic_c")>>],
      [throws |-> FALSE, providers |-> <<ProviderById("clinic_c"), ProviderById("clinic_d")>>] }

ErrSearchFailed == "search_providers failed"

\* mutant: a search fills the cache only when it is empty
search_providers_tool_keeps_first(providers, found) ==
    IF found.throws
    THEN [providers |-> providers,
          response |-> [providers |-> <<>>, error |-> ErrSearchFailed]]
    ELSE [providers |-> IF providers = <<>> THEN found.providers ELSE providers,
          response |-> [providers |-> found.providers]]

\* mutant: a search adds to the cache
search_providers_tool_accumulates(providers, found) ==
    IF found.throws
    THEN [providers |-> <<>>,
          response |-> [providers |-> <<>>, error |-> ErrSearchFailed]]
    ELSE [providers |-> providers \o found.providers,
          response |-> [providers |-> found.providers]]

\* mutant: a search that throws leaves the cache as it was
search_providers_tool_keeps_cache_on_error(providers, found) ==
    IF found.throws
    THEN [providers |-> providers,
          response |-> [providers |-> <<>>, error |-> ErrSearchFailed]]
    ELSE [providers |-> found.providers,
          response |-> [providers |-> found.providers]]

\* search_providers_tool: `found` is the outcome of its search_providers call;
\* gives the new value of the global and the response
search_providers_tool(providers, found) ==
    IF found.throws
    THEN [providers |-> <<>>,
          response |-> [providers |-> <<>>, error |-> ErrSearchFailed]]
    ELSE [providers |-> found.providers,
          response |-> [providers |-> found.providers]]

ErrUnknownProvider(provider_id) == <<"Unknown provider_id=", provider_id>>

\* get_openings_tool: next((x for x in providers if x["id"] == provider_id), None)
get_openings_tool(providers, provider_id) ==
    LET matches == {i \in 1..Len(providers) : providers[i].id = provider_id}
    IN  IF matches = {}
        THEN [openings |-> <<>>, error |-> ErrUnknownProvider(provider_id)]
        ELSE LET p == providers[CHOOSE i \in matches : \A k \in matches : i <= k]
             IN  [openings |-> OpeningsOf(p)]

\* the pairs the two for loops of select_best_appointment visit, in order
RECURSIVE Options(_)
Options(providers) ==
    IF providers = <<>> THEN <<>>
    ELSE LET provider == Head(providers)
             openings == OpeningsOf(provider)
         IN  [k \in 1..Len(openings) |-> [provider |-> provider, slot |-> openings[k]]]
             \o Options(Tail(providers))

\* score_result.get("score", 0)
ScoreOf(score_result) ==
    IF "score" \in DOMAIN score_result THEN score_result.score ELSE 0

\* {"id": provider["id"], ..., "distance_km": provider.get("distance_km", 0)}
OptionProvider(provider) ==
    [id |-> provider.id, name |-> provider.name,
     address |-> IF "address" \in DOMAIN provider THEN provider.address ELSE "",
     rating |-> IF "rating" \in DOMAIN provider THEN provider.rating ELSE 0,
     distance_km |-> IF "distance_km" \in DOMAIN provider THEN provider.distance_km ELSE 0]

\* the loop body over the pairs left: best is [best_score, best_option]
RECURSIVE Scan(_, _)
Scan(options, best) ==
    IF options = <<>> THEN best
    ELSE LET o == Head(options)
         IN  IF ~check_calendar_free(o.slot) THEN Scan(Tail(options), best)
             ELSE LET current_score == ScoreOf(score(o.provider, o.slot))
                  IN  IF current_score > best.best_score
                      THEN Scan(Tail(options),
                                [best_score |-> current_score,
                                 best_option |-> Some([provider |-> OptionProvider(o.provider),
                                                       slot |-> o.slot,
                                                       score |-> current_score])])
                      ELSE Scan(Tail(options), best)

\* the dummy appointment of select_best_appointment: 2026-02-10 14:00 - 14:30
DummyHour == 14
DummyMinutes == 30
DummyOption ==
    [provider |-> [id |-> "dummy_provider", name |-> "Demo Healthcare Provider",
                   address |-> "123 Demo Street, Berlin", rating |-> 45, distance_km |-> 20],
     slot |-> [start |-> At(0, DummyHour, 0), end |-> At(0, DummyHour, DummyMinutes)],
     score |-> 0]

ErrRunSearchFirst == "No providers found. Please run search_providers_tool first."

\* mutant: an empty cache is treated like a cache without a qualifying slot
select_best_appointment_no_empty_check(providers, c) ==
    LET options == Options(providers)
        found == Scan(options, [best_score |-> 0 - 1, best_option |-> None])
        best_option == IF found.best_option = None THEN DummyOption
                       ELSE Val(found.best_option)
        free == {k \in 1..Len(options) : check_calendar_free(options[k].slot)}
    IN  [response |-> [success |-> TRUE, provider |-> best_option.provider,
                       slot |-> best_option.slot, score |-> best_option.score],
         calls |-> [c EXCEPT !.isFree = @ \o [k \in 1..Len(options) |-> options[k].slot],
                             !.score = @ + Cardinality(free)]]

\* select_best_appointment: the response and the port calls after it
select_best_appointment(providers, c) ==
    IF providers = <<>>
    THEN [response |-> [success |-> FALSE, error |-> ErrRunSearchFirst], calls |-> c]
    ELSE LET options == Options(providers)
             found == Scan(options, [best_score |-> 0 - 1, best_option |-> None])
             best_option == IF found.best_option = None THEN DummyOption
                            ELSE Val(found.best_option)
             free == {k \in 1..Len(options) : check_calendar_free(options[k].slot)}
         IN  [response |-> [success |-> TRUE, provider |-> best_option.provider,
                            slot |-> best_option.slot, score |-> best_option.score],
              calls |-> [c EXCEPT !.isFree = @ \o [k \in 1..Len(options) |-> options[k].slot],
                                  !.score = @ + Cardinality(free)]]

\* the calendar behind check_calendar_free: the stub, or a Google calendar
\* with the dummy appointment's hour busy
ToolFixtures ==
    { f \in Fixtures :
        /\ f.search.throws
        /\ f.reserve
        /\ \/ ~f.calendar.use_google_apis
           \/ f.calendar.backend = "up" /\ f.calendar.busy = {Slot(BusyStart - 1)} }

\* the server process has started: providers = []
InitTools ==
    /\ ports \in ToolFixtures
    /\ mode = "tools"
    /\ init_state = [providers |-> <<>>]
    /\ state = init_state
    /\ pc = "serving"
    /\ calls = NoCalls
    /\ hist = <<>>
    /\ run = 1
    /\ first = None

\* one tool call of workflow run r, served to the end before the next
ToolCall(name, r, input, providers, response, c) ==
    /\ pc = "serving"
    /\ mode = "tools"
    /\ Len(hist) < MaxToolCalls
    /\ state' = [state EXCEPT !.providers = providers]
    /\ calls' = c
    /\ hist' = Append(hist, [step |-> name, run |-> r, input |-> input,
                             pre |-> state.providers, post |-> providers,
                             response |-> response, cpre |-> calls, cpost |-> c])
    /\ UNCHANGED <<ports, mode, pc, init_state, run, first>>

SearchProvidersTool ==
    \E r \in Runs, found \in ToolSearchOutcomes :
        /\ mode = "tools"
        /\ LET res == search_providers_tool(state.providers, found)
           IN  ToolCall("search_providers_tool", r, [found |-> found],
                        res.providers, res.response, [calls EXCEPT !.search = @ + 1])

GetOpeningsTool ==
    \E r \in Runs, provider_id \in ProviderIds :
        /\ mode = "tools"
        /\ ToolCall("get_openings_tool", r, [provider_id |-> provider_id],
                    state.providers, get_openings_tool(state.providers, provider_id), calls)

SelectBestAppointment ==
    \E r \in Runs :
        /\ mode = "tools"
        /\ LET res == select_best_appointment(state.providers, calls)
           IN  ToolCall("select_best_appointment", r, [time_window |-> "this week"],
                        state.providers, res.response, res.calls)

NextTools ==
    \/ SearchProvidersTool
    \/ GetOpeningsTool
    \/ SelectBestAppointment

SpecTools == InitTools /\ [][NextTools]_vars

----------------------------------------------------------------------------
(* Properties of the tool server *)

\* the positions, in loop order, of the calendar-free openings of a cache
Qualifying(providers) ==
    {k \in 1..Len(Options(providers)) : check_calendar_free(Options(providers)[k].slot)}

\* Scorer total of the k-th pair
TotalAt(providers, k) ==
    score(Options(providers)[k].provider, Options(providers)[k].slot).total

\* the first position among those with the maximum Scorer total
BestPosition(providers) ==
    CHOOSE k \in Qualifying(providers) :
        \A m \in Qualifying(providers) :
            \/ TotalAt(providers, m) < TotalAt(providers, k)
            \/ TotalAt(providers, m) = TotalAt(providers, k) /\ k <= m

\* C22: over all cached providers and their calendar-free openings,
\* select_best_appointment returns the pair with the maximum Scorer total, the
\* first such pair in provider order then slot order on a tie, and the
\* returned score is that pair's Scorer total.
C22_MaxScoring ==
    \A j \in Entries("select_best_appointment") :
        Qualifying(hist[j].pre) # {} =>
            LET best == Options(hist[j].pre)[BestPosition(hist[j].pre)]
            IN  /\ hist[j].response.success
                /\ hist[j].response.provider = OptionProvider(best.provider)
                /\ hist[j].response.slot = best.slot
                /\ hist[j].response.score = score(best.provider, best.slot).total

\* clinic_b is cached before the higher-rated clinic_a at the same distance:
\* the answer is clinic_b's first free opening with score 0
C22_Witness ==
    \E j \in Entries("select_best_appointment") :
        /\ Len(hist[j].pre) = 2
        /\ hist[j].pre[1].id = "clinic_b"
        /\ hist[j].pre[2].id = "clinic_a"
        /\ TotalAt(hist[j].pre, 1) < TotalAt(hist[j].pre, Len(Options(hist[j].pre)))
        /\ hist[j].response.success
        /\ hist[j].response.provider.id = "clinic_b"
        /\ hist[j].response.score = 0

\* C23 as stated: whenever no cached slot qualifies (cache empty, no openings,
\* or none calendar-free) select_best_appointment returns a successful
\* response carrying the dummy appointment.
C23_Original ==
    \A j \in Entries("select_best_appointment") :
        Qualifying(hist[j].pre) = {} =>
            /\ hist[j].response.success
            /\ hist[j].response = [success |-> TRUE, provider |-> DummyOption.provider,
                                   slot |-> DummyOption.slot, score |-> DummyOption.score]

\* C23: with a non-empty cache in which no slot qualifies (no provider has
\* openings, or no opening is calendar-free) select_best_appointment returns
\* a successful response carrying the dummy appointment; with an empty cache
\* it returns the failure response that asks for a search first.
C23_PlaceholderUnlessEmpty ==
    \A j \in Entries("select_best_appointment") :
        Qualifying(hist[j].pre) = {} =>
            IF hist[j].pre = <<>>
            THEN hist[j].response = [success |-> FALSE, error |-> ErrRunSearchFirst]
            ELSE /\ hist[j].response.success
                 /\ hist[j].response = [success |-> TRUE, provider |-> DummyOption.provider,
                                        slot |-> DummyOption.slot, score |-> DummyOption.score]

\* providers are cached, one without openings and one whose only opening is
\* busy, and the dummy appointment came back
C23_Witness ==
    \E j \in Entries("select_best_appointment") :
        /\ Len(hist[j].pre) = 2
        /\ OpeningsOf(hist[j].pre[1]) = <<>>
        /\ OpeningsOf(hist[j].pre[2]) # <<>>
        /\ Qualifying(hist[j].pre) = {}
        /\ hist[j].response.success
        /\ hist[j].response.provider.id = "dummy_provider"

\* the latest search_providers_tool call before call j, 0 when there is none
LastSearch(j) ==
    LET before == {k \in 1..(j - 1) : hist[k].step = "search_providers_tool"}
    IN  IF before = {} THEN 0 ELSE CHOOSE k \in before : \A m \in before : m <= k

\* the positions of provider_id in the list search call k returned
Returned(k, provider_id) ==
    {i \in 1..Len(hist[k].response.providers) : hist[k].response.providers[i].id = provider_id}

\* C24: get_openings_tool(id) returns the openings of the provider with that
\* id in the list the most recent search_providers_tool call returned, and no
\* error, when that list has such a provider; otherwise it returns no
\* openings and the Unknown provider_id error.  Each search replaces the
\* whole cache, so an id only an earlier search returned does not resolve.
C24_CacheProtocol ==
    /\ \A k \in Entries("search_providers_tool") : hist[k].post = hist[k].response.providers
    /\ \A j \in Entries("get_openings_tool") :
           LET provider_id == hist[j].input.provider_id
               k == LastSearch(j)
           IN  IF k # 0 /\ Returned(k, provider_id) # {}
               THEN LET i == CHOOSE i \in Returned(k, provider_id) :
                                 \A m \in Returned(k, provider_id) : i <= m
                    IN  hist[j].response =
                            [openings |-> OpeningsOf(hist[k].response.providers[i])]
               ELSE hist[j].response =
                        [openings |-> <<>>, error |-> <<"Unknown provider_id=", provider_id>>]

\* an id an earlier search returned, a later search that returned other
\* providers, and the id no longer resolves
C24_Witness ==
    \E j \in Entries("get_openings_tool") :
        LET k == LastSearch(j)
        IN  /\ k > 1
            /\ hist[k - 1].step = "search_providers_tool"
            /\ Returned(k - 1, hist[j].input.provider_id) # {}
            /\ hist[k].response.providers # <<>>
            /\ Returned(k, hist[j].input.provider_id) = {}
            /\ "error" \in DOMAIN hist[j].response

\* the tool calls that read the cache
Readers == Entries("get_openings_tool") \cup Entries("select_best_appointment")

\* C25: the cache is shared by the runs: a get_openings_tool or
\* select_best_appointment call of one run that follows a search of the
\* other run is answered from the list that search returned, whatever the
\* run's own search had returned.
C25_SharedCache ==
    \A j \in Readers :
        LET k == LastSearch(j)
        IN  (k # 0 /\ hist[k].run # hist[j].run) =>
                /\ hist[j].pre = hist[k].response.providers
                /\ hist[j].step = "get_openings_tool" =>
                       ("error" \in DOMAIN hist[j].response
                            <=> Returned(k, hist[j].input.provider_id) = {})
                /\ (hist[j].step = "select_best_appointment" /\ hist[j].response.success) =>
                       \/ hist[j].response.provider.id = "dummy_provider"
                       \/ Returned(k, hist[j].response.provider.id) # {}

\* run 1 searched and was given an id; run 2 searched and was given other
\* providers; run 1 asked for the openings of its id and got the error
C25_Witness ==
    \E j \in Entries("get_openings_tool") :
        LET k == LastSearch(j)
        IN  /\ k > 1
            /\ hist[k].run # hist[j].run
            /\ hist[k - 1].step = "search_providers_tool"
            /\ hist[k - 1].run = hist[j].run
            /\ Returned(k - 1, hist[j].input.provider_id) # {}
            /\ hist[k].response.providers # <<>>
            /\ "error" \in DOMAIN hist[j].response
            /\ hist[j].response.error = <<"Unknown provider_id=", hist[j].input.provider_id>>

----------------------------------------------------------------------------
(* ExtractPreferences: the near hint *)

\* the radius_km entry e would have produced without the hint: the caller's
\* value, else the radius extracted in the same step, else the default 5.0
RadiusWithoutHint(e) ==
    LET x == e.input.ex.extracted
    IN  IF IsSet(e.pre, "radius_km") THEN Val(e.pre.radius_km)
        ELSE IF TruthyJson(x.radius_km) /\ "num" \in DOMAIN Val(x.radius_km)
        THEN Val(x.radius_km).num
        ELSE 50

\* C31: when the extracted location preference mentions close, near or
\* nearby, the radius_km of the returned record is min(r, 3.0), r being the
\* radius the step would have produced without the hint, so it is at most 3.0.
C31_NearCap ==
    \A j \in Entries("extract_preferences") :
        NearHint(hist[j]) =>
            /\ hist[j].post.radius_km # None
            /\ Val(hist[j].post.radius_km) <= 30
            /\ Val(hist[j].post.radius_km) = Min(RadiusWithoutHint(hist[j]), 30)

\* the caller set no radius, the extraction gave radius 2.0 and "nearby", and
\* the record came back with 3.0
C31_Witness ==
    \E j \in Entries("extract_preferences") :
        /\ NearHint(hist[j])
        /\ hist[j].pre.radius_km = None
        /\ hist[j].input.ex.extracted.radius_km = Some(JsonNum(20))
        /\ hist[j].post.radius_km = Some(30)

----------------------------------------------------------------------------
(* Local Pipeline: no retries *)

\* every port was called at most once in this run, the calendar at most once
\* for a slot
CalledAtMostOnce ==
    /\ calls.search <= 1
    /\ calls.negotiate <= 1
    /\ Len(calls.reserve) <= 1
    /\ Len(calls.createEvent) <= 1
    /\ \A i, k \in 1..Len(calls.isFree) : calls.isFree[i] = calls.isFree[k] => i = k

\* C32: in one Local Pipeline run the directory search, the negotiation, the
\* reservation and the event creation are each called at most once and the
\* calendar at most once per proposed slot, and the first failing call sets
\* error in the record returned by that same step.
C32_NoRetries ==
    mode # "agent" =>
        /\ CalledAtMostOnce
        /\ (ports.search.throws /\ calls.search > 0) =>
               \E j \in Entries("pick_provider") : TruthyStr(hist[j].post.error)
        /\ \A j \in Entries("reserve_and_book") :
               (Reserved(j) /\ ~ports.reserve) => TruthyStr(hist[j].post.error)

\* the directory search was called once, raised, and the run ended without a
\* returned record
C32_Witness ==
    /\ mode = "full"
    /\ ports.search.throws
    /\ calls.search = 1
    /\ pc = "crashed"
    /\ hist = <<>>
    /\ state.error = None

----------------------------------------------------------------------------
(* Agent Pipeline: the conversation *)

\* the entries that return a conversation
WithMessages == {j \in 1..Len(hist) : hist[j].post.messages # None}

\* C33: the first agent entry creates messages as one system turn followed by
\* one user turn, every agent entry appends exactly one response turn, and
\* every later value of messages has each earlier value as a prefix.
C33_ConversationExtended ==
    mode = "agent" =>
        /\ \A j \in Entries("agent") :
               LET before == IF hist[j].pre.messages = None
                             THEN <<SystemMessage(hist[j].pre), HumanMessage(hist[j].pre)>>
                             ELSE Val(hist[j].pre.messages)
               IN  /\ hist[j].post.messages = Some(Append(before, hist[j].input.resp))
                   /\ before[1].role = "system"
                   /\ before[2].role = "human"
        /\ \A j, k \in WithMessages :
               j < k => IsPrefix(Val(hist[j].post.messages), Val(hist[k].post.messages))

\* after a tools step the conversation is the tool-response turns alone: the
\* system and user turns and the agent's request are gone
C33_Witness ==
    \E j \in Entries("tools") :
        /\ Val(hist[j].pre.messages)[1].role = "system"
        /\ Len(Val(hist[j].pre.messages)) = 3
        /\ Val(hist[j].post.messages)[1].role = "tool"
        /\ ~IsPrefix(Val(hist[j].pre.messages), Val(hist[j].post.messages))

----------------------------------------------------------------------------
(* NegotiateSlots: the offered slots *)

\* C34: call_provider stores in proposed_slots exactly the first min(3, n) of
\* the selected provider's n openings, in their order: never more than 3, and
\* each one of the provider's openings.
C34_FirstThreeOpenings ==
    \A j \in Entries("call_provider") :
        hist[j].cpost.negotiate = hist[j].cpre.negotiate + 1 =>
            /\ hist[j].post.proposed_slots # None
            /\ LET openings == OpeningsOf(Val(hist[j].pre.provider))
                   slots == Val(hist[j].post.proposed_slots)
               IN  /\ Len(slots) <= 3
                   /\ Len(slots) = IF Len(openings) < 3 THEN Len(openings) ELSE 3
                   /\ \A i \in 1..Len(slots) : slots[i] = openings[i]

\* a provider with more than 3 openings was called and 3 were stored
C34_Witness ==
    \E j \in Entries("call_provider") :
        /\ hist[j].cpost.negotiate = hist[j].cpre.negotiate + 1
        /\ Len(OpeningsOf(Val(hist[j].pre.provider))) > 3
        /\ Len(Val(hist[j].post.proposed_slots)) = 3

----------------------------------------------------------------------------
(* Full run: what is reserved and booked *)

\* C35: in a full Local Pipeline run reserve_slot is called only with the
\* selected provider and a slot the calendar had answered free for earlier in
\* the run, and create_calendar_event only with that same slot.
C35_ReservesCheckedSlot ==
    mode = "full" =>
        /\ \A i \in 1..Len(calls.reserve) :
               /\ state.provider = Some(calls.reserve[i].provider)
               /\ \E k \in 1..Len(calls.isFree) :
                      /\ calls.isFree[k] = calls.reserve[i].slot
                      /\ check_calendar_free(calls.isFree[k])
        /\ \A i \in 1..Len(calls.createEvent) :
               /\ calls.reserve # <<>>
               /\ calls.createEvent[i].slot = calls.reserve[1].slot
        /\ \A j \in Entries("reserve_and_book") :
               Reserved(j) =>
                   \E k \in 1..Len(hist[j].cpre.isFree) :
                       hist[j].cpre.isFree[k] = hist[j].cpost.reserve[Len(hist[j].cpost.reserve)].slot

\* a full run skipped a busy slot, reserved the free one after it and created
\* the event for it
C35_Witness ==
    /\ mode = "full"
    /\ Len(calls.isFree) > 1
    /\ ~check_calendar_free(calls.isFree[1])
    /\ Len(calls.reserve) = 1
    /\ Len(calls.createEvent) = 1
    /\ calls.createEvent[1].slot = calls.reserve[1].slot
    /\ calls.reserve[1].slot = calls.isFree[Len(calls.isFree)]

----------------------------------------------------------------------------
(* ConfirmLocalBooking: no calendar check *)

\* the entries of confirm_local_booking: its two nodes, outside the graph
ConfirmEntries ==
    IF mode \in {"split", "api"}
    THEN Entries("reserve_and_book") \cup Entries("done")
    ELSE {}

----------------------------------------------------------------------------
(* Agent Pipeline and tool server: no reservation *)

\* the agent graph and the tool server it calls
SpecAgentTools == (InitAgent \/ InitTools) /\ [][NextAgent \/ NextTools]_vars

\* C37: no step of the agent graph and no tool of the tool server calls
\* reserve_slot, so every create_event step that has a slot with start and
\* end creates the calendar event for a slot that was never reserved.
C37_NoReservation ==
    mode \in {"agent", "tools"} =>
        /\ calls.reserve = <<>>
        /\ \A j \in 1..Len(hist) : hist[j].cpost.reserve = <<>>
        /\ mode = "agent" =>
               \A j \in Entries("create_event") :
                   LET used == Val(hist[j].post.best_option)
                   IN  {"start", "end"} \subseteq DOMAIN used.slot =>
                           /\ Len(hist[j].cpost.createEvent) = Len(hist[j].cpre.createEvent) + 1
                           /\ hist[j].cpost.createEvent[Len(hist[j].cpost.createEvent)].slot = used.slot
                           /\ hist[j].post.event_id # None
        /\ (mode = "agent" /\ pc = "crashed") => hist[Len(hist)].step # "finalize"

\* a run ended with an event for the appointment the agent answered with, and
\* nothing was reserved
C37_Witness ==
    /\ mode = "agent"
    /\ pc = "END"
    /\ calls.reserve = <<>>
    /\ \E j \in Entries("create_event") :
           /\ hist[j].pre.best_option = json_loads(ContentFull)
           /\ Len(hist[j].cpost.createEvent) = 1
           /\ hist[j].post.event_id # None

----------------------------------------------------------------------------
(* CreateEvent: half an appointment *)

\* a best_option with a provider and no slot, or a slot and no provider
HalfAppointment(d) ==
    ("provider" \in DOMAIN d /\ d.provider # EmptyDict)
        # ("slot" \in DOMAIN d /\ d.slot # EmptyDict)

\* C38: a best_option that has only a provider or only a slot is discarded as
\* a whole in create_event: best_option becomes the placeholder appointment
\* and the event is created for the placeholder's provider and slot.
C38_HalfDiscarded ==
    \A j \in Entries("create_event") :
        (hist[j].pre.best_option # None /\ HalfAppointment(Val(hist[j].pre.best_option))) =>
            LET dummy == Placeholder(hist[j].input.now)
                made == hist[j].cpost.createEvent
            IN  /\ hist[j].post.best_option = Some(dummy)
                /\ Len(made) = Len(hist[j].cpre.createEvent) + 1
                /\ made[Len(made)] =
                       [title |-> AgentEventTitle(hist[j].pre, dummy.provider),
                        slot |-> dummy.slot,
                        location |-> dummy.provider.address]
                /\ hist[j].post.event_id # None

\* create_event was given the answer's provider without a slot and made the
\* event at the placeholder clinic
C38_Witness ==
    \E j \in Entries("create_event") :
        /\ hist[j].pre.best_option = json_loads(ContentNoSlot)
        /\ hist[j].post.best_option = Some(Placeholder(hist[j].input.now))
        /\ Len(hist[j].cpost.createEvent) = 1
        /\ hist[j].cpost.createEvent[1].location = PlaceholderProvider.address

----------------------------------------------------------------------------
(* Tool server: a search that throws *)

\* C39: when search_providers throws inside search_providers_tool, the tool
\* answers with an empty provider list and an error text, and the cache is
\* emptied: until the next search, get_openings_tool answers Unknown
\* provider_id for every id and select_best_appointment answers its failure,
\* whatever an earlier search had cached.
C39_FailedSearchEmptiesCache ==
    \A j \in Entries("search_providers_tool") :
        hist[j].input.found.throws =>
            /\ hist[j].response = [providers |-> <<>>, error |-> ErrSearchFailed]
            /\ hist[j].post = <<>>
            /\ \A m \in Readers :
                   LastSearch(m) = j =>
                       /\ hist[m].pre = <<>>
                       /\ hist[m].step = "get_openings_tool" =>
                              hist[m].response =
                                  [openings |-> <<>>,
                                   error |-> ErrUnknownProvider(hist[m].input.provider_id)]
                       /\ hist[m].step = "select_best_appointment" =>
                              hist[m].response =
                                  [success |-> FALSE, error |-> ErrRunSearchFirst]

\* a search cached a provider, the next search threw, and the provider's id
\* no longer resolves
C39_Witness ==
    \E m \in Entries("get_openings_tool") :
        LET j == LastSearch(m)
        IN  /\ j > 1
            /\ hist[j].input.found.throws
            /\ hist[j].pre # <<>>
            /\ hist[j - 1].step = "search_providers_tool"
            /\ Returned(j - 1, hist[m].input.provider_id) # {}
            /\ "error" \in DOMAIN hist[m].response

====
